---- MODULE Spec2Model ----
(***************************************************************************)
(* A model of the PM internship recommender (backend/recommender.py and    *)
(* backend/app.py): the skill relevance scorer, the ranking pipeline with  *)
(* its semantic fallback, and the embeddings cache with its refresh.       *)
(*                                                                         *)
(* Strings are sequences of one-character strings, so that split, strip,   *)
(* lower and the substring test are computed and not assumed.  Scores are  *)
(* exact numbers in hundredths (0.25 is 25); a relevance score is a        *)
(* fraction num/den.  Embedding vectors are tuples of integers whose       *)
(* cosine similarities are exact in hundredths.                            *)
(***************************************************************************)
EXTENDS Integers, Sequences, FiniteSets, TLC

VARIABLES
    pc,                  \* position of the call: "call" before, "done" after
    user_skills,         \* calculate_skill_relevance: first argument
    internship_skills,   \* calculate_skill_relevance: second argument
    relevance,           \* calculate_skill_relevance: returned triple
    internships,         \* recommend: the list of postings passed in
    request,             \* recommend: education, skills, location, top_k
    provider,            \* the embedding provider's answer to embed_query
    results,             \* recommend: the returned list
    trace,               \* recommend: which steps the call went through
    internships_file,    \* content of internships.json
    embeddings_file,     \* content of embeddings.json
    cached_internships,  \* app.py global
    cached_embeddings,   \* app.py global
    last_call,           \* what the last request found, did and returned;
                         \* Idle after a restart or a change of the catalog
    fill_args,           \* precompute_doc_embeddings_new: its arguments
    fill_first,          \* what a first fill did and returned
    fill_second,         \* what a second fill on the first one's result did
    threads,             \* concurrent requests: position and locals of each
    edits                \* how often the catalog file was rewritten meanwhile

skillVars == <<user_skills, internship_skills, relevance>>
rankVars  == <<internships, request, provider, results, trace>>
cacheVars == <<internships_file, embeddings_file, cached_internships,
               cached_embeddings, last_call, fill_args, fill_first, fill_second>>
concVars  == <<threads, edits>>
vars == <<pc, skillVars, rankVars, cacheVars, concVars>>

\* Python's None, and the value of a variable the behaviour does not use.
None == [t |-> "None"]
Idle == [t |-> "idle"]

(***************************************************************************)
(* Python string operations                                                *)
(***************************************************************************)

\* str.lower() on one character.
LowerChar(c) ==
    CASE c = "A" -> "a"
      [] c = "B" -> "b"
      [] c = "C" -> "c"
      [] c = "D" -> "d"
      [] c = "E" -> "e"
      [] c = "F" -> "f"
      [] c = "G" -> "g"
      [] c = "H" -> "h"
      [] c = "I" -> "i"
      [] c = "J" -> "j"
      [] c = "K" -> "k"
      [] c = "L" -> "l"
      [] c = "M" -> "m"
      [] c = "N" -> "n"
      [] c = "O" -> "o"
      [] c = "P" -> "p"
      [] c = "Q" -> "q"
      [] c = "R" -> "r"
      [] c = "S" -> "s"
      [] c = "T" -> "t"
      [] c = "U" -> "u"
      [] c = "V" -> "v"
      [] c = "W" -> "w"
      [] c = "X" -> "x"
      [] c = "Y" -> "y"
      [] c = "Z" -> "z"
      [] OTHER -> c

\* str.lower()
Lower(s) == [i \in 1..Len(s) |-> LowerChar(s[i])]

IsSpace(c) == c = " "

\* str.strip(): leading and trailing whitespace removed.
RECURSIVE LStrip(_)
LStrip(s) ==
    IF s = <<>> THEN <<>>
    ELSE IF IsSpace(Head(s)) THEN LStrip(Tail(s)) ELSE s

RECURSIVE RStrip(_)
RStrip(s) ==
    IF s = <<>> THEN <<>>
    ELSE IF IsSpace(s[Len(s)]) THEN RStrip(SubSeq(s, 1, Len(s) - 1)) ELSE s

Strip(s) == RStrip(LStrip(s))

\* str.split(sep) for a one-character separator: "" splits to [""].
RECURSIVE Split(_, _)
Split(s, sep) ==
    IF \E i \in 1..Len(s) : s[i] = sep
    THEN LET i == CHOOSE k \in 1..Len(s) :
                     s[k] = sep /\ \A j \in 1..(k - 1) : s[j] # sep
         IN  <<SubSeq(s, 1, i - 1)>> \o Split(SubSeq(s, i + 1, Len(s)), sep)
    ELSE <<s>>

\* str.split() without argument: runs of whitespace separate, no empty piece.
RECURSIVE SplitWhitespace(_)
SplitWhitespace(s) ==
    LET t == LStrip(s)
    IN  IF t = <<>> THEN <<>>
        ELSE IF \E i \in 1..Len(t) : IsSpace(t[i])
        THEN LET i == CHOOSE k \in 1..Len(t) :
                         IsSpace(t[k]) /\ \A j \in 1..(k - 1) : ~IsSpace(t[j])
             IN  <<SubSeq(t, 1, i - 1)>> \o SplitWhitespace(SubSeq(t, i, Len(t)))
        ELSE <<t>>

\* Python's `needle in hay` on strings.
Contains(hay, needle) ==
    \E i \in 0..(Len(hay) - Len(needle)) :
        SubSeq(hay, i + 1, i + Len(needle)) = needle

\* ",".join(pieces)
RECURSIVE Join(_, _)
Join(pieces, sep) ==
    IF pieces = <<>> THEN <<>>
    ELSE IF Len(pieces) = 1 THEN pieces[1]
    ELSE pieces[1] \o <<sep>> \o Join(Tail(pieces), sep)

Range(f) == {f[i] : i \in DOMAIN f}

(***************************************************************************)
(* calculate_skill_relevance                                               *)
(***************************************************************************)

\* set([s.strip().lower() for s in skills.split(",") if s.strip()])
SkillTokens(skills) ==
    {Lower(Strip(p)) : p \in {q \in Range(Split(skills, ",")) : Strip(q) # <<>>}}

\* PartialScan with the break forgotten: every matching posting skill counts.
PartialScan_NoBreak(user_skill, intern_tokens, exact_matches) ==
    Cardinality({intern_skill \in intern_tokens :
        /\ Len(user_skill) > 2
        /\ Len(intern_skill) > 2
        /\ (Contains(intern_skill, user_skill) \/ Contains(user_skill, intern_skill))
        /\ user_skill \notin exact_matches})

\* PartialScan with the test on exact_matches forgotten: an exactly matched
\* user skill counts as a partial match of itself as well.
PartialScan_CountsExact(user_skill, intern_tokens, exact_matches) ==
    IF \E intern_skill \in intern_tokens :
          /\ Len(user_skill) > 2
          /\ Len(intern_skill) > 2
          /\ (Contains(intern_skill, user_skill) \/ Contains(user_skill, intern_skill))
    THEN 1 ELSE 0

\* The inner loop of the partial matching for one user skill: the posting
\* skills are scanned and the scan breaks at the first one that counts.
RECURSIVE PartialScan(_, _, _)
PartialScan(user_skill, intern_tokens, exact_matches) ==
    IF intern_tokens = {} THEN 0
    ELSE LET intern_skill == CHOOSE x \in intern_tokens : TRUE
         IN  IF /\ Len(user_skill) > 2
                /\ Len(intern_skill) > 2
                /\ (Contains(intern_skill, user_skill) \/ Contains(user_skill, intern_skill))
                /\ user_skill \notin exact_matches
             THEN 1
             ELSE PartialScan(user_skill, intern_tokens \ {intern_skill}, exact_matches)

\* The outer loop: partial_matches summed over the user skills.
RECURSIVE PartialMatches(_, _, _)
PartialMatches(user_tokens, intern_tokens, exact_matches) ==
    IF user_tokens = {} THEN 0
    ELSE LET user_skill == CHOOSE x \in user_tokens : TRUE
         IN  PartialScan(user_skill, intern_tokens, exact_matches)
             + PartialMatches(user_tokens \ {user_skill}, intern_tokens, exact_matches)

\* A fraction num/den of non-negative integers, den > 0.
Frac(n, d) == [num |-> n, den |-> d]
FracGT(a, b) == a.num * b.den > b.num * a.den
FracEQ(a, b) == a.num * b.den = b.num * a.den
Zero == Frac(0, 1)

\* (exact * 1.0 + partial * 0.6) / total_user_skills, in tenths over tenths.
RelevanceScore(exact, partial, total) ==
    IF total > 0 THEN Frac(10 * exact + 6 * partial, 10 * total) ELSE Zero

calculate_skill_relevance(uskills, iskills) ==
    LET user_skill_tokens   == SkillTokens(uskills)
        intern_skill_tokens == SkillTokens(iskills)
        exact_matches       == user_skill_tokens \cap intern_skill_tokens
        partial_matches     == PartialMatches(user_skill_tokens, intern_skill_tokens,
                                              exact_matches)
    IN  IF user_skill_tokens = {} \/ intern_skill_tokens = {}
        THEN [exact |-> 0, partial |-> 0, score |-> Zero]
        ELSE [exact   |-> Cardinality(exact_matches),
              partial |-> partial_matches,
              score   |-> RelevanceScore(Cardinality(exact_matches), partial_matches,
                                         Cardinality(user_skill_tokens))]

(***************************************************************************)
(* Postings, vectors and cosine similarity                                 *)
(***************************************************************************)

\* dict.get(key, default); a posting is a function from its keys.
Get(d, key, default) == IF key \in DOMAIN d THEN d[key] ELSE default

\* isinstance(internship, dict): a malformed entry has the one key "nondict".
IsDict(x) == "nondict" \notin DOMAIN x

Max(a, b) == IF a >= b THEN a ELSE b
Min(a, b) == IF a <= b THEN a ELSE b

RECURSIVE Dot(_, _)
Dot(a, b) == IF a = <<>> THEN 0 ELSE Head(a) * Head(b) + Dot(Tail(a), Tail(b))

\* The integer square root; exact on the vectors of the model.
Isqrt(n) == CHOOSE r \in 0..n : r * r <= n /\ (r + 1) * (r + 1) > n

\* sklearn's cosine_similarity of two rows, in hundredths: a zero row is
\* left as it is by the normalisation, so its similarity is 0.
CosineSimilarity(q_vec, doc_emb) ==
    LET nq == Isqrt(Dot(q_vec, q_vec))
        nd == Isqrt(Dot(doc_emb, doc_emb))
    IN  IF nq = 0 \/ nd = 0 THEN 0
        ELSE (100 * Dot(q_vec, doc_emb)) \div (nq * nd)

\* cosine_similarity raises on rows of different lengths.
SimilarityRaises(q_vec, doc_emb) == Len(q_vec) # Len(doc_emb)

(***************************************************************************)
(* recommend: the gate                                                     *)
(***************************************************************************)

\* ClampTopK without the upper limit.
ClampTopK_NoUpper(top_k) == Max(3, top_k)

\* top_k = max(3, min(7, top_k))
ClampTopK(top_k) == Max(3, Min(7, top_k))

\* GateAdmits with the relevance threshold taken inclusively (>= 0.2).
GateAdmits_Inclusive(exact_matches, partial_matches, relevance_score) ==
    \/ exact_matches > 0
    \/ partial_matches >= 2
    \/ ~FracGT(Frac(2, 10), relevance_score)

\* exact_matches > 0 or partial_matches >= 2 or relevance_score > 0.2
GateAdmits(exact_matches, partial_matches, relevance_score) ==
    \/ exact_matches > 0
    \/ partial_matches >= 2
    \/ FracGT(relevance_score, Frac(2, 10))

\* Step 1 for the posting at position i (original_index i - 1).
GateEntry(internship_list, skills, i) ==
    LET internship == internship_list[i]
    IN  IF ~IsDict(internship)
        THEN [admitted |-> FALSE, original_index |-> i - 1]
        ELSE LET r == calculate_skill_relevance(skills, Get(internship, "skills", <<>>))
             IN  [admitted        |-> GateAdmits(r.exact, r.partial, r.score),
                  original_index  |-> i - 1,
                  internship      |-> internship,
                  exact_matches   |-> r.exact,
                  partial_matches |-> r.partial,
                  relevance_score |-> r.score]

\* skill_relevant_internships zipped with skill_relevance_data, in list order.
SkillRelevant(internship_list, skills) ==
    SelectSeq([i \in 1..Len(internship_list) |-> GateEntry(internship_list, skills, i)],
              LAMBDA e : e.admitted)

(***************************************************************************)
(* recommend: scoring                                                      *)
(***************************************************************************)

\* semantic_scores[i]: 0.0 without an embedding or when the similarity raises.
SemanticScore(q_vec, internship) ==
    LET doc_emb == Get(internship, "embedding", <<>>)
    IN  IF Len(doc_emb) = 0 THEN 0
        ELSE IF SimilarityRaises(q_vec, doc_emb) THEN 0
        ELSE CosineSimilarity(q_vec, doc_emb)

\* EducationMatch testing the containment in one direction only.
EducationMatch_OneWay(user_edu, req_edu) ==
    /\ req_edu # <<>>
    /\ user_edu # <<>>
    /\ (req_edu = user_edu \/ Contains(user_edu, req_edu))

\* Education boost condition, on the lower-cased strings.
EducationMatch(user_edu, req_edu) ==
    /\ req_edu # <<>>
    /\ user_edu # <<>>
    /\ (req_edu = user_edu \/ Contains(user_edu, req_edu) \/ Contains(req_edu, user_edu))

Remote == <<"r", "e", "m", "o", "t", "e">>

\* Location boost condition, on the lower-cased strings.
LocationMatch(user_loc, intern_loc) ==
    /\ user_loc # <<>>
    /\ intern_loc # <<>>
    /\ \/ user_loc = intern_loc
       \/ Contains(intern_loc, Remote)
       \/ user_loc = Remote
       \/ \E loc \in Range(SplitWhitespace(user_loc)) : Contains(intern_loc, loc)
       \/ \E loc \in Range(SplitWhitespace(intern_loc)) : Contains(user_loc, loc)

\* boost += 0.30 * exact_matches; boost += 0.15 * min(partial_matches, 3)
SkillBoost(exact_matches, partial_matches) ==
    30 * exact_matches + 15 * Min(partial_matches, 3)

\* Step 3 for one admitted posting: the entry appended to final_scores.
FinalScore(q_vec, e, education, location) ==
    LET internship     == e.internship
        base_score     == SemanticScore(q_vec, internship)
        user_edu       == Lower(education)
        user_loc       == Lower(location)
        req_edu        == Lower(Get(internship, "required_education", <<>>))
        intern_loc     == Lower(Get(internship, "location", <<>>))
        edu_match      == EducationMatch(user_edu, req_edu)
        location_match == LocationMatch(user_loc, intern_loc)
        boost          == (IF edu_match THEN 25 ELSE 0)
                          + SkillBoost(e.exact_matches, e.partial_matches)
                          + (IF location_match THEN 8 ELSE 0)
    IN  [score         |-> base_score + boost,
         internship    |-> internship,
         match_details |-> [exact_skill_matches   |-> e.exact_matches,
                            partial_skill_matches |-> e.partial_matches,
                            skill_relevance_score |-> e.relevance_score,
                            education_match       |-> edu_match,
                            location_match        |-> location_match,
                            semantic_similarity   |-> base_score]]

\* InsertDesc placing an entry before the entries of equal score.
RECURSIVE InsertDesc_BeforeEqual(_, _)
InsertDesc_BeforeEqual(sorted, x) ==
    IF sorted = <<>> THEN <<x>>
    ELSE IF Head(sorted).score > x.score
         THEN <<Head(sorted)>> \o InsertDesc_BeforeEqual(Tail(sorted), x)
         ELSE <<x>> \o sorted

\* list.sort(key=score, reverse=True): stable, equal scores keep their order.
RECURSIVE InsertDesc(_, _)
InsertDesc(sorted, x) ==
    IF sorted = <<>> THEN <<x>>
    ELSE IF Head(sorted).score >= x.score
         THEN <<Head(sorted)>> \o InsertDesc(Tail(sorted), x)
         ELSE <<x>> \o sorted

RECURSIVE SortDesc(_, _)
SortDesc(sorted, rest) ==
    IF rest = <<>> THEN sorted
    ELSE SortDesc(InsertDesc(sorted, Head(rest)), Tail(rest))

\* ResultItem without the deletion of embedding.
ResultItem_KeepsEmbedding(internship, score, match_details) ==
    [k \in DOMAIN internship \cup {"score", "match_details"} |->
        IF k = "score" THEN score
        ELSE IF k = "match_details" THEN match_details
        ELSE internship[k]]

\* internship.copy() with score and match_details set and embedding deleted.
ResultItem(internship, score, match_details) ==
    [k \in (DOMAIN internship \ {"embedding"}) \cup {"score", "match_details"} |->
        IF k = "score" THEN score
        ELSE IF k = "match_details" THEN match_details
        ELSE internship[k]]

(***************************************************************************)
(* semantic_fallback_recommendation                                        *)
(***************************************************************************)

\* The query texts: how often each part is repeated and whether the
\* position term is there.
PrimaryQuery(education, skills, location) ==
    [skills_repeat |-> 3, education_repeat |-> 2, position |-> TRUE,
     skills |-> skills, education |-> education, location |-> location]

FallbackQuery(education, skills) ==
    [skills_repeat |-> 4, education_repeat |-> 2, position |-> FALSE,
     skills |-> skills, education |-> education, location |-> <<>>]

\* What a call went through: the queries sent to embed_query, whether the
\* fallback was entered, how many postings step 3 scored, and whether the
\* call ended with an exception: it never does, the except clauses around
\* embed_query print the error and return [].
Trace(queries, fallback, scored) ==
    [queries |-> queries, fallback |-> fallback, scored |-> scored,
     raised |-> FALSE]

Outcome(res, tr) == [results |-> res, trace |-> tr]

\* AboveCutoff keeping a similarity of exactly 0.4.
AboveCutoff_Inclusive(sim) == sim >= 40

\* sim > 0.4
AboveCutoff(sim) == sim > 40

\* The loop filling semantic_scores and valid_internships for position i.
FallbackEntry(q_vec, internship) ==
    LET doc_emb == Get(internship, "embedding", <<>>)
    IN  IF ~IsDict(internship) \/ Len(doc_emb) = 0 \/ SimilarityRaises(q_vec, doc_emb)
        THEN [valid |-> FALSE]
        ELSE LET sim == CosineSimilarity(q_vec, doc_emb)
             IN  [valid |-> AboveCutoff(sim), sim |-> sim, internship |-> internship]

ValidInternships(q_vec, internship_list) ==
    SelectSeq([i \in 1..Len(internship_list) |-> FallbackEntry(q_vec, internship_list[i])],
              LAMBDA e : e.valid)

\* np.argsort(semantic_scores)[-top_k:][::-1]: the top_k best positions, best
\* first.  argsort's default kind is not stable, so equal scores come in any
\* order; of positions holding the same posting with the same score, which
\* give the same result, only the first is tried.
RECURSIVE ArgsortTop(_, _, _)
ArgsortTop(valid, remaining, top_k) ==
    IF top_k = 0 THEN {<<>>}
    ELSE LET best == {i \in remaining : \A j \in remaining : valid[j].sim <= valid[i].sim}
             reps == {i \in best : \A j \in best : valid[j] = valid[i] => i <= j}
         IN  UNION {{<<i>> \o r : r \in ArgsortTop(valid, remaining \ {i}, top_k - 1)} :
                    i \in reps}

FallbackItem(e) ==
    ResultItem(e.internship, e.sim,
               [exact_skill_matches     |-> 0,
                partial_skill_matches   |-> 0,
                skill_relevance_score   |-> Zero,
                education_match         |-> FALSE,
                location_match          |-> FALSE,
                semantic_similarity     |-> e.sim,
                fallback_recommendation |-> TRUE])

\* The set of outcomes of one call, given the provider's answer prov.
semantic_fallback_recommendation(internship_list, education, skills, location, top_k, prov) ==
    LET tr == Trace(<<FallbackQuery(education, skills)>>, TRUE, 0)
    IN  IF ~prov.ok THEN {Outcome(<<>>, tr)}
        ELSE LET valid == ValidInternships(prov.q_emb, internship_list)
                 k     == Min(top_k, Len(valid))
             IN  IF valid = <<>> THEN {Outcome(<<>>, tr)}
                 ELSE {Outcome([n \in 1..k |-> FallbackItem(valid[idx_sorted[n]])], tr) :
                       idx_sorted \in ArgsortTop(valid, 1..Len(valid), k)}

(***************************************************************************)
(* recommend                                                               *)
(***************************************************************************)

\* UseFallback entered as soon as fewer than three postings are admitted.
UseFallback_TooFew(relevant) == Len(relevant) < 3

\* if not skill_relevant_internships: return semantic_fallback_recommendation(...)
UseFallback(relevant) == relevant = <<>>

\* str(x).strip() if x else ""
Normalize(x) == IF x = <<>> THEN <<>> ELSE Strip(x)

\* The set of outcomes of one call, given the provider's answer prov.
recommend(internship_list, education0, skills0, location0, top_k0, prov) ==
    IF internship_list = <<>> THEN {Outcome(<<>>, Trace(<<>>, FALSE, 0))}
    ELSE
    LET education == Normalize(education0)
        skills    == Normalize(skills0)
        location  == Normalize(location0)
        top_k     == ClampTopK(top_k0)
        relevant  == SkillRelevant(internship_list, skills)
    IN  IF UseFallback(relevant)
        THEN semantic_fallback_recommendation(internship_list, education, skills,
                                              location, top_k, prov)
        ELSE
        LET k  == Min(top_k, Len(relevant))
            qs == <<PrimaryQuery(education, skills, location)>>
        IN  IF ~prov.ok THEN {Outcome(<<>>, Trace(qs, FALSE, 0))}
            ELSE
            LET final_scores == SortDesc(<<>>,
                    [i \in 1..Len(relevant) |->
                        FinalScore(prov.q_emb, relevant[i], education, location)])
            IN  {Outcome([n \in 1..k |-> ResultItem(final_scores[n].internship,
                                                     final_scores[n].score,
                                                     final_scores[n].match_details)],
                         Trace(qs, FALSE, Len(relevant)))}

(***************************************************************************)
(* Inputs                                                                  *)
(***************************************************************************)

SeqsUpTo(S, n) == UNION {[1..k -> S] : k \in 0..n}

\* Bounds of the inputs.
MaxUserTokens == 3
MaxPostTokens == 2
MaxCatalog == 3
MaxLongCatalog == 8

\* The pieces a skills string is joined from with commas: a blank piece, a
\* token too short for partial matching, tokens contained in one another,
\* an upper-case spelling with surrounding blanks, an unrelated token.
RawTokens ==
    {<<" ">>,
     <<"a", "b">>,
     <<"a", "b", "c">>,
     <<"b", "c", "d">>,
     <<" ", "A", "B", "C", "d", " ">>,
     <<"x", "y">>}

SkillStrings(n) == {Join(pieces, ",") : pieces \in SeqsUpTo(RawTokens, n)}

\* Embedding vectors of length 5 (and one of another dimension); the
\* similarities to QueryA are 0.8, 1.0 and exactly 0.4.
VecSim80  == <<4, 3, 0, 0>>
VecSim100 == <<5, 0, 0, 0>>
VecSim40  == <<2, 4, 2, 1>>
VecOtherDim == <<5, 0>>
QueryA == <<5, 0, 0, 0>>
QueryB == <<0, 5, 0, 0>>

\* The provider's answers to embed_query: a failure or a vector.
Failure == [ok |-> FALSE, q_emb |-> <<>>]
Answer(q_emb) == [ok |-> TRUE, q_emb |-> q_emb]

\* The postings ranked in short catalogs.
RankPool ==
    {[title |-> <<"t", "1">>, skills |-> <<"a", "b", "c">>,
      required_education |-> <<"b", "a">>, location |-> <<"d", "l">>,
      embedding |-> VecSim80],
     [title |-> <<"t", "2">>, skills |-> <<"a", "b", "c">>,
      required_education |-> <<"b", "a">>, location |-> <<"d", "l">>,
      embedding |-> VecSim80],
     [title |-> <<"t", "3">>, skills |-> <<" ", "A", "B", "C", "d", ",", " ", "x", "y">>,
      required_education |-> <<"M", "B", "A">>, location |-> <<"R", "e", "m", "o", "t", "e", " ", "o", "k">>],
     [title |-> <<"t", "4">>, skills |-> <<"x", "y">>,
      location |-> <<"n", "e", "w", " ", "d", "l">>, embedding |-> VecSim100],
     [title |-> <<"t", "5">>, skills |-> <<"b", "c", "d">>,
      required_education |-> <<"b", "a">>, embedding |-> VecOtherDim],
     [nondict |-> TRUE]}

\* The postings of long catalogs.
LongPool ==
    {[title |-> <<"a">>, skills |-> <<"a", "b", "c">>, embedding |-> VecSim80],
     [title |-> <<"b">>, skills |-> <<"x", "y">>, embedding |-> VecSim40]}

Profile(education, skills, location) ==
    [education |-> education, skills |-> skills, location |-> location]

RankProfiles ==
    {Profile(<<" ", "B", "A">>, <<"a", "b", "c">>, <<"D", "L">>),
     Profile(<<" ", "B", "A">>, <<"a", "b", "c", ",", "b", "c", "d", ",", "a", "b", "c", "d", "x", ",", "x", "a", "b", "c", "d">>, <<"r", "e", "m", "o", "t", "e">>),
     Profile(<<"d">>, <<"a", "b", ",", "a", "b", "c", ",", "z", "z">>, <<"x", "d", "l">>),
     Profile(<<" ", "B", "A">>, <<"z", "z">>, <<"D", "L">>),
     Profile(<<>>, <<>>, <<>>),
     Profile(<<" ", "B", "A">>, <<"X", "Y">>, <<"q">>),
     Profile(<<>>, <<"a", "b", "c">>, <<>>),
     Profile(<<"d">>, <<"X", "Y", " ">>, <<"x", "d", "l">>),
     Profile(<<>>, <<"b", "c", "d", ",", "a", "b", "c", ",", "p", ",", "q", ",", "r", ",", "s">>, <<"q">>)}

LongProfiles ==
    {Profile(<<>>, <<"a", "b", "c">>, <<>>),
     Profile(<<>>, <<"a", "b", "c", ",", " ", "x", "y">>, <<>>),
     Profile(<<>>, <<"z", "z">>, <<>>)}

RankTopKs == {5}
LongTopKs == {-1, 5, 100}

WithTopK(profile, top_k) ==
    [education |-> profile.education, skills |-> profile.skills,
     location |-> profile.location, top_k |-> top_k]

(***************************************************************************)
(* The calls                                                               *)
(***************************************************************************)

InitSkill ==
    /\ pc = "call"
    /\ user_skills \in SkillStrings(MaxUserTokens)
    /\ internship_skills \in SkillStrings(MaxPostTokens)
    /\ relevance = Idle
    /\ internships = Idle /\ request = Idle /\ provider = Idle
    /\ results = Idle /\ trace = Idle
    /\ internships_file = Idle /\ embeddings_file = Idle
    /\ cached_internships = Idle /\ cached_embeddings = Idle /\ last_call = Idle
    /\ fill_args = Idle /\ fill_first = Idle /\ fill_second = Idle
    /\ threads = Idle /\ edits = Idle

\* One call of calculate_skill_relevance.
ScoreSkills ==
    /\ pc = "call"
    /\ relevance' = calculate_skill_relevance(user_skills, internship_skills)
    /\ pc' = "done"
    /\ UNCHANGED <<user_skills, internship_skills, rankVars, cacheVars, concVars>>

NextSkill == ScoreSkills

SpecSkill == InitSkill /\ [][NextSkill]_vars

InitRank ==
    /\ pc = "call"
    /\ \/ /\ internships \in SeqsUpTo(RankPool, MaxCatalog)
          /\ request \in {WithTopK(p, k) : p \in RankProfiles, k \in RankTopKs}
          /\ provider \in {Failure, Answer(QueryA)}
       \/ /\ internships \in SeqsUpTo(LongPool, MaxLongCatalog)
          /\ request \in {WithTopK(p, k) : p \in LongProfiles, k \in LongTopKs}
          /\ provider \in {Answer(QueryA), Answer(QueryB)}
    /\ results = Idle /\ trace = Idle
    /\ user_skills = Idle /\ internship_skills = Idle /\ relevance = Idle
    /\ internships_file = Idle /\ embeddings_file = Idle
    /\ cached_internships = Idle /\ cached_embeddings = Idle /\ last_call = Idle
    /\ fill_args = Idle /\ fill_first = Idle /\ fill_second = Idle
    /\ threads = Idle /\ edits = Idle

\* One call of recommend.
Recommend ==
    /\ pc = "call"
    /\ \E out \in recommend(internships, request.education, request.skills,
                            request.location, request.top_k, provider) :
          /\ results' = out.results
          /\ trace' = out.trace
    /\ pc' = "done"
    /\ UNCHANGED <<internships, request, provider, skillVars, cacheVars, concVars>>

NextRank == Recommend

SpecRank == InitRank /\ [][NextRank]_vars

(***************************************************************************)
(* Claims on calculate_skill_relevance (SpecSkill)                         *)
(***************************************************************************)

UserTokens == SkillTokens(user_skills)
PostTokens == SkillTokens(internship_skills)

\* One token is a substring of the other and both are longer than 2.
Related(u, i) == Len(u) > 2 /\ Len(i) > 2 /\ (Contains(i, u) \/ Contains(u, i))

\* The user tokens that count as partial matches.
PartialSet ==
    {u \in UserTokens \ PostTokens : \E i \in PostTokens : Related(u, i)}

\* C5: with an empty token set on either side the result is (0, 0, 0.0)
\* and the gate does not admit; otherwise exact is the size of the
\* intersection of the token sets, partial the number of user tokens that
\* are no exact match, are longer than 2 and are a substring or superstring
\* of a posting token longer than 2 (each counted once), and the score is
\* (exact * 1.0 + partial * 0.6) / number of user tokens.
C5_SkillRelevanceContract ==
    pc = "done" =>
        IF UserTokens = {} \/ PostTokens = {}
        THEN /\ relevance.exact = 0
             /\ relevance.partial = 0
             /\ relevance.score.num = 0
             /\ ~GateAdmits(relevance.exact, relevance.partial, relevance.score)
        ELSE /\ relevance.exact = Cardinality(UserTokens \cap PostTokens)
             /\ relevance.partial = Cardinality(PartialSet)
             /\ relevance.score.num * 10 * Cardinality(UserTokens)
                    = (10 * relevance.exact + 6 * relevance.partial) * relevance.score.den

\* A call with an exact match, a partial match, and a user token related to
\* two posting tokens (which counts once).
C5_Witness ==
    /\ pc = "done"
    /\ relevance.exact >= 1
    /\ relevance.partial >= 1
    /\ \E u \in PartialSet : Cardinality({i \in PostTokens : Related(u, i)}) >= 2

\* A call on an empty user string against a posting with skills.
C5_WitnessEmpty ==
    pc = "done" /\ UserTokens = {} /\ PostTokens # {} /\ relevance.exact = 0

\* The user has a single token and at least two posting tokens match it,
\* exactly or as substring or superstring.
FewTokensSeveralMatches ==
    /\ Cardinality(UserTokens) = 1
    /\ Cardinality({i \in PostTokens : \E u \in UserTokens : i = u \/ Related(u, i)}) >= 2

\* C6 as stated: the score is not capped, and a user with few tokens and a
\* posting with several matches get a score above 1.0.
C6_ExceedsOne ==
    (pc = "done" /\ FewTokensSeveralMatches) => FracGT(relevance.score, Frac(1, 1))

\* C6 as amended: every user token counts at most once, as exact or as
\* partial, so exact + partial is at most the number of user tokens and the
\* score never exceeds 1.0; it is 1.0 exactly when every user token is an
\* exact match.
C6_ScoreAtMostOne ==
    pc = "done" =>
        /\ relevance.exact + relevance.partial <= Cardinality(UserTokens)
        /\ ~FracGT(relevance.score, Frac(1, 1))
        /\ FracEQ(relevance.score, Frac(1, 1))
               <=> (UserTokens # {} /\ UserTokens \subseteq PostTokens)

\* A user with one token that several posting tokens match: the score is 1.0.
C6_Witness ==
    pc = "done" /\ FewTokensSeveralMatches /\ FracEQ(relevance.score, Frac(1, 1))

(***************************************************************************)
(* Claims on recommend (SpecRank): what the claims speak of, stated on the *)
(* inputs of the call                                                      *)
(***************************************************************************)

Called == pc = "done" /\ internships # <<>>

\* n is a substring of h: h is some prefix, then n, then some suffix.
IsSubstring(n, h) ==
    \E a \in 0..(Len(h) - Len(n)) : \A j \in 1..Len(n) : h[a + j] = n[j]

\* The whitespace-delimited tokens of s: the maximal runs without a blank.
WordsOf(s) ==
    {SubSeq(s, a, b) : <<a, b>> \in
        {ab \in (1..Len(s)) \X (1..Len(s)) :
            /\ ab[1] <= ab[2]
            /\ \A j \in ab[1]..ab[2] : s[j] # " "
            /\ (ab[1] = 1 \/ s[ab[1] - 1] = " ")
            /\ (ab[2] = Len(s) \/ s[ab[2] + 1] = " ")}}

\* The scorer's result for a posting against the user's skills.
ScorerResult(p) == calculate_skill_relevance(request.skills, Get(p, "skills", <<>>))

\* exactCount > 0 or partialCount >= 2 or relevanceScore > 0.2
PassesGate(p) ==
    /\ IsDict(p)
    /\ LET r == ScorerResult(p)
       IN  r.exact > 0 \/ r.partial >= 2 \/ 10 * r.score.num > 2 * r.score.den

AdmittedIdx == {i \in 1..Len(internships) : PassesGate(internships[i])}

\* The un-boosted similarity of a posting to the query vector.
SimilarityOf(p) ==
    LET e == Get(p, "embedding", <<>>)
    IN  IF e = <<>> \/ Len(e) # Len(provider.q_emb) THEN 0
        ELSE CosineSimilarity(provider.q_emb, e)

EducationBoosted(p) ==
    LET u == Lower(Strip(request.education))
        r == Lower(Get(p, "required_education", <<>>))
    IN  u # <<>> /\ r # <<>> /\ (u = r \/ IsSubstring(u, r) \/ IsSubstring(r, u))

LocationBoosted(p) ==
    LET u == Lower(Strip(request.location))
        l == Lower(Get(p, "location", <<>>))
    IN  /\ u # <<>>
        /\ l # <<>>
        /\ \/ u = l
           \/ IsSubstring(Remote, l)
           \/ u = Remote
           \/ \E w \in WordsOf(u) : IsSubstring(w, l)
           \/ \E w \in WordsOf(l) : IsSubstring(w, u)

\* similarity + 0.25 + 0.30 * exact + 0.15 * min(partial, 3) + 0.08
BoostedScore(p) ==
    LET r == ScorerResult(p)
    IN  SimilarityOf(p)
        + (IF EducationBoosted(p) THEN 25 ELSE 0)
        + 30 * r.exact
        + 15 * (IF r.partial < 3 THEN r.partial ELSE 3)
        + (IF LocationBoosted(p) THEN 8 ELSE 0)

\* What the claims say of the posting at each position of the catalog.
Expected ==
    [i \in 1..Len(internships) |->
        LET p == internships[i]
        IN  IF ~PassesGate(p) THEN [admitted |-> FALSE]
            ELSE [admitted  |-> TRUE,
                  posting   |-> [k \in DOMAIN p \ {"embedding"} |-> p[k]],
                  score     |-> BoostedScore(p),
                  exact     |-> ScorerResult(p).exact,
                  partial   |-> ScorerResult(p).partial,
                  relevance |-> ScorerResult(p).score,
                  education |-> EducationBoosted(p),
                  location  |-> LocationBoosted(p),
                  sim       |-> SimilarityOf(p)]]

\* The posting a result item is a copy of, and a posting without its vector.
PostingOf(item) == [k \in DOMAIN item \ {"score", "match_details"} |-> item[k]]
WithoutEmbedding(p) == [k \in DOMAIN p \ {"embedding"} |-> p[k]]

IsFallbackItem(item) == "fallback_recommendation" \in DOMAIN item.match_details

\* clamp(requested_top_k, 3, 7)
Clamped == IF request.top_k < 3 THEN 3 ELSE IF request.top_k > 7 THEN 7 ELSE request.top_k

\* The postings the fallback keeps: a vector of the query's dimension and a
\* similarity above 0.4.
SurvivorIdx ==
    {i \in 1..Len(internships) :
        /\ IsDict(internships[i])
        /\ Get(internships[i], "embedding", <<>>) # <<>>
        /\ Len(internships[i].embedding) = Len(provider.q_emb)
        /\ CosineSimilarity(provider.q_emb, internships[i].embedding) > 40}

\* The postings a request can return: the admitted ones, or the fallback's
\* survivors when the gate admits none.
Eligible == IF AdmittedIdx # {} THEN AdmittedIdx ELSE SurvivorIdx

(***************************************************************************)
(* Claims on recommend (SpecRank)                                          *)
(***************************************************************************)

\* C1 as stated: on a non-empty catalog the number of results returned is
\* at least 3, at most 7, and at most min(clamp(top_k, 3, 7), number of
\* eligible postings).  (Stated for the calls whose query embedding
\* succeeded and that have an eligible posting.)
C1_ReturnedBetween3And7 ==
    (Called /\ provider.ok /\ Eligible # {}) =>
        LET eligible == Cardinality(Eligible)
        IN  /\ 3 <= Len(results)
            /\ Len(results) <= 7
            /\ Len(results) <= Min(Clamped, eligible)

\* C1 as amended: the clamped top_k is within 3..7, and the number of
\* results returned is at most 7 and at most min(clamped top_k, number of
\* eligible postings); it is exactly that minimum when the query embedding
\* succeeds, hence below 3 when fewer than 3 postings are eligible.
C1_ReturnedAtMostClamped ==
    Called =>
        LET eligible == Cardinality(Eligible)
        IN  /\ 3 <= Clamped /\ Clamped <= 7
            /\ Len(results) <= 7
            /\ Len(results) <= Min(Clamped, eligible)
            /\ provider.ok => Len(results) = Min(Clamped, eligible)

\* Eight eligible postings and a top_k above 7: seven are returned.
C1_Witness ==
    /\ Called
    /\ request.top_k > 7
    /\ Cardinality(Eligible) = 8
    /\ Len(results) = 7

\* C2: the gate admits a posting iff exact > 0 or partial >= 2 or
\* relevance > 0.2 (the primary path scores exactly the postings that pass),
\* and every item of a primary-path result is the copy of a posting that
\* passes, so a rejected posting is never returned on the primary path.
C2_PrimaryResultsAdmitted ==
    (Called /\ ~trace.fallback) =>
        LET ex == Expected
            A  == {i \in DOMAIN ex : ex[i].admitted}
        IN  /\ provider.ok => trace.scored = Cardinality(A)
            /\ \A n \in 1..Len(results) :
                  /\ ~IsFallbackItem(results[n])
                  /\ \E i \in A :
                        /\ PostingOf(results[n]) = ex[i].posting
                        /\ results[n].match_details.exact_skill_matches = ex[i].exact
                        /\ results[n].match_details.partial_skill_matches = ex[i].partial

\* A primary-path result that leaves out a rejected posting whose
\* similarity to the query is 1.0, above that of every returned item.
C2_Witness ==
    /\ Called
    /\ ~trace.fallback
    /\ results # <<>>
    /\ \E i \in 1..Len(internships) :
          /\ IsDict(internships[i])
          /\ ~PassesGate(internships[i])
          /\ SimilarityOf(internships[i]) = 100
          /\ \A n \in 1..Len(results) :
                /\ results[n].match_details.semantic_similarity < 100
                /\ PostingOf(results[n]) # WithoutEmbedding(internships[i])

\* C3 as stated: recommend enters the fallback iff the gate admits no
\* posting.
C3_FallbackIffGateEmpty ==
    pc = "done" =>
        (trace.fallback <=> (\A i \in 1..Len(internships) : ~PassesGate(internships[i])))

\* C3 as amended: on a non-empty catalog recommend enters the fallback iff
\* no posting passes the gate; it then returns a result of the fallback and
\* runs no primary step (the only query embedded is the fallback's, no
\* posting is scored); when a posting passes, the fallback is not entered,
\* the only query is the primary one and no item carries
\* fallback_recommendation.  On an empty catalog recommend returns the empty
\* list at once: no gate, no fallback, no query.
C3_FallbackIffNoneAdmitted ==
    /\ (pc = "done" /\ internships = <<>>) =>
          results = <<>> /\ ~trace.fallback /\ trace.queries = <<>>
    /\ Called =>
        /\ trace.fallback <=> (\A i \in 1..Len(internships) : ~PassesGate(internships[i]))
        /\ trace.fallback =>
              /\ trace.scored = 0
              /\ trace.queries = <<FallbackQuery(Strip(request.education),
                                                 Strip(request.skills))>>
              /\ \A n \in 1..Len(results) : IsFallbackItem(results[n])
              /\ \E o \in semantic_fallback_recommendation(internships,
                        Strip(request.education), Strip(request.skills),
                        Strip(request.location), Clamped, provider) :
                    results = o.results
        /\ ~trace.fallback =>
              /\ trace.queries = <<PrimaryQuery(Strip(request.education),
                                                Strip(request.skills),
                                                Strip(request.location))>>
              /\ \A n \in 1..Len(results) : ~IsFallbackItem(results[n])

\* The fallback ran on a catalog whose postings all fail the gate and
\* returned items; fewer than three postings admitted does not trigger it.
C3_Witness ==
    /\ Called
    /\ trace.fallback
    /\ Len(internships) >= 2
    /\ results # <<>>

C3_WitnessPrimary ==
    /\ Called
    /\ ~trace.fallback
    /\ Cardinality(AdmittedIdx) = 1
    /\ Len(internships) >= 2
    /\ Len(results) = 1

\* What the fallback returns for the survivor at position i.
FallbackExpected(i) ==
    LET sim == CosineSimilarity(provider.q_emb, internships[i].embedding)
    IN  [k \in (DOMAIN internships[i] \ {"embedding"}) \cup {"score", "match_details"} |->
            IF k = "score" THEN sim
            ELSE IF k = "match_details"
            THEN [exact_skill_matches     |-> 0,
                  partial_skill_matches   |-> 0,
                  skill_relevance_score   |-> Zero,
                  education_match         |-> FALSE,
                  location_match          |-> FALSE,
                  semantic_similarity     |-> sim,
                  fallback_recommendation |-> TRUE]
            ELSE internships[i][k]]

Occurrences(seq, x) == Cardinality({n \in 1..Len(seq) : seq[n] = x})

\* C4: the fallback returns only postings with a non-empty embedding and a
\* similarity above 0.4, exactly min(top_k, number of survivors) of them,
\* the most similar ones, in descending order of similarity, each with
\* fallback_recommendation TRUE, zero skill counts and relevance, both match
\* flags FALSE and score equal to semantic_similarity.
C4_FallbackContract ==
    (Called /\ trace.fallback) =>
        LET survivors == SurvivorIdx
            expected  == [i \in survivors |-> FallbackExpected(i)]
        IN
        /\ Len(results) = (IF provider.ok THEN Min(Clamped, Cardinality(survivors)) ELSE 0)
        /\ \A n \in 1..Len(results) :
              /\ \E i \in survivors : results[n] = expected[i]
              /\ Occurrences(results, results[n])
                     <= Cardinality({i \in survivors : expected[i] = results[n]})
              /\ results[n].score > 40
              /\ results[n].score = results[n].match_details.semantic_similarity
              /\ results[n].match_details.fallback_recommendation
              /\ "embedding" \notin DOMAIN results[n]
        /\ \A n \in 1..(Len(results) - 1) : results[n].score >= results[n + 1].score
        /\ \A i \in survivors :
              (\E n \in 1..Len(results) : expected[i].score > results[n].score)
                  => Occurrences(results, expected[i])
                         = Cardinality({j \in survivors : expected[j] = expected[i]})

\* A fallback call that returns postings and drops one whose similarity is
\* exactly 0.4.
C4_Witness ==
    /\ Called
    /\ trace.fallback
    /\ Len(results) >= 2
    /\ \E i \in 1..Len(internships) :
          /\ Get(internships[i], "embedding", <<>>) # <<>>
          /\ SimilarityOf(internships[i]) = 40
          /\ \A n \in 1..Len(results) :
                PostingOf(results[n]) # WithoutEmbedding(internships[i])

\* A fallback call that returns postings of different similarities.
C4_WitnessOrdered ==
    /\ Called
    /\ trace.fallback
    /\ Len(results) >= 2
    /\ results[1].score > results[Len(results)].score

\* A fallback call with more survivors than top_k.
C4_WitnessTruncated ==
    /\ Called
    /\ trace.fallback
    /\ Cardinality(SurvivorIdx) > Clamped
    /\ Len(results) = Clamped

\* C7: on the primary path every returned item is the copy of an admitted
\* posting whose score is similarity + 0.25 (education) + 0.30 * exact
\* + 0.15 * min(partial, 3) + 0.08 (location), without a cap; education_match
\* and location_match tell whether the boost was added and
\* semantic_similarity is the un-boosted similarity.
C7_ScoreComposition ==
    (Called /\ ~trace.fallback) =>
        LET ex == Expected
        IN  \A n \in 1..Len(results) :
                \E i \in {j \in DOMAIN ex : ex[j].admitted} :
                    /\ PostingOf(results[n]) = ex[i].posting
                    /\ results[n].score = ex[i].score
                    /\ results[n].match_details.education_match = ex[i].education
                    /\ results[n].match_details.location_match = ex[i].location
                    /\ results[n].match_details.semantic_similarity = ex[i].sim
                    /\ results[n].match_details.skill_relevance_score = ex[i].relevance

\* An item with more than three partial matches and both boosts, the
\* education one by containment: 0.25 + 0.45 + 0.08 above its similarity.
C7_Witness ==
    /\ Called
    /\ \E n \in 1..Len(results) :
          /\ results[n].match_details.partial_skill_matches > 3
          /\ results[n].match_details.location_match
          /\ results[n].match_details.education_match
          /\ Lower(results[n].required_education) # Lower(Strip(request.education))
          /\ results[n].score = results[n].match_details.semantic_similarity + 78

\* An item whose score is above 1.0.
C7_WitnessAboveOne ==
    /\ Called
    /\ \E n \in 1..Len(results) :
          /\ ~IsFallbackItem(results[n])
          /\ results[n].match_details.exact_skill_matches >= 1
          /\ results[n].score > 100

\* The place of admitted posting i in the ranking: one more than the number
\* of admitted postings with a higher score, or an equal one and earlier.
RankOf(ex, i) ==
    1 + Cardinality({j \in DOMAIN ex :
            /\ ex[j].admitted
            /\ \/ ex[j].score > ex[i].score
               \/ ex[j].score = ex[i].score /\ j < i})

\* C8: when a posting is admitted and the query embedding succeeds, the
\* result is the first min(clamp(top_k, 3, 7), admitted) postings of the
\* admitted ones sorted by final score, highest first, equal scores in
\* catalog order; the call has one possible result.
C8_SortedStableTruncated ==
    (Called /\ provider.ok) =>
        LET ex == Expected
            A  == {i \in DOMAIN ex : ex[i].admitted}
        IN
        A # {} =>
        /\ ~trace.fallback
        /\ Len(results) = Min(Clamped, Cardinality(A))
        /\ \A n \in 1..Len(results) :
              \E i \in A :
                  /\ RankOf(ex, i) = n
                  /\ PostingOf(results[n]) = ex[i].posting
                  /\ results[n].score = ex[i].score
        /\ Cardinality(recommend(internships, request.education, request.skills,
                                 request.location, request.top_k, provider)) = 1

\* Two different postings of equal score returned in catalog order.
C8_Witness ==
    /\ Called
    /\ ~trace.fallback
    /\ \E n \in 1..(Len(results) - 1) :
          /\ results[n].score = results[n + 1].score
          /\ PostingOf(results[n]) # PostingOf(results[n + 1])
          /\ \E i, j \in AdmittedIdx :
                /\ i < j
                /\ WithoutEmbedding(internships[i]) = PostingOf(results[n])
                /\ WithoutEmbedding(internships[j]) = PostingOf(results[n + 1])
                /\ WithoutEmbedding(internships[i]) # WithoutEmbedding(internships[j])

\* More admitted postings than top_k, of different scores: the best are kept.
C8_WitnessTruncated ==
    /\ Called
    /\ ~trace.fallback
    /\ provider.ok
    /\ Cardinality(AdmittedIdx) > Len(results)
    /\ Len(results) >= 3
    /\ results[1].score > results[Len(results)].score

(***************************************************************************)
(* Identity and embedding text of a posting                                *)
(***************************************************************************)

\* A JSON value of the field id: an integer, a string or null.
IntId(n) == [int |-> n]
StrId(s) == [str |-> s]

\* bool(value) of an id: 0, "" and None are falsy.
Truthy(v) ==
    IF "int" \in DOMAIN v THEN v.int # 0
    ELSE IF "str" \in DOMAIN v THEN v.str # <<>>
    ELSE FALSE

Digit(n) == <<"0", "1", "2", "3", "4", "5", "6", "7", "8", "9">>[n + 1]

\* str(n) of a non-negative integer.
RECURSIVE Digits(_)
Digits(n) == IF n < 10 THEN <<Digit(n)>> ELSE Digits(n \div 10) \o <<Digit(n % 10)>>

\* str(value) of a truthy id.
Str(v) ==
    IF "int" \in DOMAIN v
    THEN IF v.int < 0 THEN <<"-">> \o Digits(-v.int) ELSE Digits(v.int)
    ELSE v.str

\* str.replace(" ", "_")
ReplaceSpaces(s) == [i \in 1..Len(s) |-> IF s[i] = " " THEN "_" ELSE s[i]]

get_internship_id(internship) ==
    IF Truthy(Get(internship, "id", None))
    THEN Str(internship.id)
    ELSE Lower(ReplaceSpaces(Get(internship, "title", <<>>) \o <<"_">>
                             \o Get(internship, "org", <<>>)))

\* description[:200]
DescriptionLimit == 200

\* The f-string of get_internship_text, as its literal and field pieces in
\* order; the final strip() reaches the last piece only, the first being a
\* literal.  (A sector given as a list is joined with ", "; the postings of
\* the model carry it as a string.)
get_internship_text(internship) ==
    <<"Position: ", Get(internship, "title", <<>>),
      " Company: ", Get(internship, "org", <<>>),
      " Education Required: ", Get(internship, "required_education", <<>>),
      " Required Skills: ", Get(internship, "skills", <<>>),
      " Industry Sector: ", Get(internship, "sector", <<>>),
      " Work Location: ", Get(internship, "location", <<>>),
      " Description: ",
      RStrip(SubSeq(Get(internship, "description", <<>>), 1,
                    Min(DescriptionLimit,
                        Len(Get(internship, "description", <<>>)))))>>

(***************************************************************************)
(* precompute_doc_embeddings_new                                           *)
(***************************************************************************)

\* {} ; a dict of embeddings is a function from identities to vectors.
EmptyDict == <<>>

\* d[key] = value
Store(d, key, value) ==
    [k \in DOMAIN d \cup {key} |-> IF k = key THEN value ELSE d[k]]

\* The provider's answers to embed_documents: an exception, or one vector
\* per text.
Raises == [ok |-> FALSE, vectors |-> <<>>]
Vectors(vs) == [ok |-> TRUE, vectors |-> vs]
embed_documents(docs, prov) == [i \in 1..Len(docs) |-> prov.vectors[i]]

\* The loop over the postings: a mutant that requests every well-formed
\* posting, cached or not.
RECURSIVE DocsToCompute_All(_, _)
DocsToCompute_All(internship_list, existing_embeddings) ==
    IF internship_list = <<>> THEN <<>>
    ELSE LET internship == Head(internship_list)
             rest == DocsToCompute_All(Tail(internship_list), existing_embeddings)
         IN  IF ~IsDict(internship) THEN rest
             ELSE <<[id |-> get_internship_id(internship),
                     text |-> get_internship_text(internship)]>> \o rest

\* The loop over the postings: the (identity, text) pairs appended to
\* ids_to_compute and docs_to_compute, in order.
RECURSIVE DocsToCompute(_, _)
DocsToCompute(internship_list, existing_embeddings) ==
    IF internship_list = <<>> THEN <<>>
    ELSE LET internship == Head(internship_list)
             rest == DocsToCompute(Tail(internship_list), existing_embeddings)
         IN  IF ~IsDict(internship) THEN rest
             ELSE IF get_internship_id(internship) \in DOMAIN existing_embeddings
             THEN rest
             ELSE IF get_internship_text(internship) = <<>> THEN rest
             ELSE <<[id |-> get_internship_id(internship),
                     text |-> get_internship_text(internship)]>> \o rest

\* for i, embedding_vector in enumerate(new_embeddings):
\*     existing_embeddings[ids_to_compute[i]] = embedding_vector
RECURSIVE StoreAll(_, _, _)
StoreAll(existing_embeddings, ids, new_embeddings) ==
    IF new_embeddings = <<>> THEN existing_embeddings
    ELSE StoreAll(Store(existing_embeddings, Head(ids), Head(new_embeddings)),
                  Tail(ids), Tail(new_embeddings))

\* What a call did: whether it raised, the dict it returned, and the batches
\* of texts it sent to embed_documents.
FillOutcome(raised, embeddings_dict, calls) ==
    [raised |-> raised, embeddings |-> embeddings_dict, calls |-> calls]

\* precompute_doc_embeddings_new with the provider's failure caught instead
\* of raised again: the dict passed in is returned.
precompute_doc_embeddings_new_Caught(internship_list, existing_embeddings, prov) ==
    IF internship_list = <<>>
    THEN FillOutcome(FALSE, existing_embeddings, <<>>)
    ELSE LET todo == DocsToCompute(internship_list, existing_embeddings)
             docs_to_compute == [i \in 1..Len(todo) |-> todo[i].text]
             ids_to_compute == [i \in 1..Len(todo) |-> todo[i].id]
         IN  IF docs_to_compute = <<>>
             THEN FillOutcome(FALSE, existing_embeddings, <<>>)
             ELSE IF ~prov.ok
             THEN FillOutcome(FALSE, existing_embeddings, <<docs_to_compute>>)
             ELSE FillOutcome(FALSE,
                      StoreAll(existing_embeddings, ids_to_compute,
                               embed_documents(docs_to_compute, prov)),
                      <<docs_to_compute>>)

\* Every caller passes a dict as existing_embeddings (the default None,
\* read as {}, is used by none).
precompute_doc_embeddings_new(internship_list, existing_embeddings, prov) ==
    IF internship_list = <<>>
    THEN FillOutcome(FALSE, existing_embeddings, <<>>)
    ELSE LET todo == DocsToCompute(internship_list, existing_embeddings)
             docs_to_compute == [i \in 1..Len(todo) |-> todo[i].text]
             ids_to_compute == [i \in 1..Len(todo) |-> todo[i].id]
         IN  IF docs_to_compute = <<>>
             THEN FillOutcome(FALSE, existing_embeddings, <<>>)
             ELSE IF ~prov.ok
             THEN FillOutcome(TRUE, existing_embeddings, <<docs_to_compute>>)
             ELSE FillOutcome(FALSE,
                      StoreAll(existing_embeddings, ids_to_compute,
                               embed_documents(docs_to_compute, prov)),
                      <<docs_to_compute>>)

(***************************************************************************)
(* Fills of a cache: precompute_doc_embeddings_new on bounded inputs, and   *)
(* a second fill of the same catalog on the dict the first one returned.    *)
(***************************************************************************)

MaxFillCatalog == 3

\* Postings as the catalog file gives them: an integer id, no id, an empty
\* id, a zero id without org, and an entry that is not a dict.  The second
\* and the third have the same identity and different texts.
FillPool ==
    {[id |-> IntId(7), title |-> <<"a", "b">>, org |-> <<"c">>],
     [title |-> <<"A", " ", "b">>, org |-> <<"C">>],
     [id |-> StrId(<<>>), title |-> <<"a", " ", "b">>, org |-> <<"c">>],
     [id |-> IntId(0), title |-> <<"x">>],
     [nondict |-> TRUE]}

\* Identities a dict of embeddings may hold before the fill; the last one
\* is of no posting.
CachedIds == {<<"7">>, <<"a", "_", "b", "_", "c">>, <<"z", "z">>}
FillVecs == {VecSim80, VecSim100}
Dicts(ids) == UNION {[keys -> FillVecs] : keys \in SUBSET ids}

\* The answers the provider may give to a batch of n texts.
Responses(n) == {Raises} \cup {Vectors(vs) : vs \in [1..n -> FillVecs]}

InitFill ==
    /\ pc = "call"
    /\ fill_args \in [internships : SeqsUpTo(FillPool, MaxFillCatalog),
                      existing_embeddings : Dicts(CachedIds)]
    /\ fill_first = Idle /\ fill_second = Idle
    /\ threads = Idle /\ edits = Idle
    /\ user_skills = Idle /\ internship_skills = Idle /\ relevance = Idle
    /\ internships = Idle /\ request = Idle /\ provider = Idle
    /\ results = Idle /\ trace = Idle
    /\ internships_file = Idle /\ embeddings_file = Idle
    /\ cached_internships = Idle /\ cached_embeddings = Idle /\ last_call = Idle

\* precompute_doc_embeddings_new(internships, existing_embeddings)
Fill ==
    /\ pc = "call"
    /\ \E prov \in Responses(Len(DocsToCompute(fill_args.internships,
                                                fill_args.existing_embeddings))) :
          fill_first' = [prov |-> prov,
                         out |-> precompute_doc_embeddings_new(
                                     fill_args.internships,
                                     fill_args.existing_embeddings, prov)]
    /\ pc' = "filled"
    /\ UNCHANGED <<skillVars, rankVars, concVars, internships_file, embeddings_file,
                   cached_internships, cached_embeddings, last_call,
                   fill_args, fill_second>>

\* precompute_doc_embeddings_new(internships, <the dict the first call returned>)
FillAgain ==
    /\ pc = "filled"
    /\ ~fill_first.out.raised
    /\ \E prov \in Responses(Len(DocsToCompute(fill_args.internships,
                                                fill_first.out.embeddings))) :
          fill_second' = precompute_doc_embeddings_new(
                             fill_args.internships,
                             fill_first.out.embeddings, prov)
    /\ pc' = "refilled"
    /\ UNCHANGED <<skillVars, rankVars, concVars, internships_file, embeddings_file,
                   cached_internships, cached_embeddings, last_call,
                   fill_args, fill_first>>

NextFill == Fill \/ FillAgain
SpecFill == InitFill /\ [][NextFill]_vars

\* The dict passed to the fill.
ExistingBefore == fill_args.existing_embeddings

\* Positions of the well-formed postings whose identity the dict passed in
\* does not hold, and the place of such a position among them.
MissingIdx ==
    {i \in 1..Len(fill_args.internships) :
        /\ IsDict(fill_args.internships[i])
        /\ get_internship_id(fill_args.internships[i]) \notin DOMAIN ExistingBefore}
PlaceOf(i) == Cardinality({j \in MissingIdx : j <= i})

\* C9: a fill sends the provider no batch when no posting is missing and
\* otherwise one batch, holding the texts of exactly the missing postings in
\* catalog order; when the provider answers, the dict returned holds the old
\* entries with their old vectors and, for every missing posting, under its
\* identity the vector returned at its place in the batch (the later place
\* when two missing postings share an identity), and nothing else; a second
\* fill of the same catalog on that dict sends no batch, whatever the
\* provider would answer, and returns the dict unchanged.
C9_FillRequestsMissingOnly ==
    (pc \in {"filled", "refilled"}) =>
        LET cat == fill_args.internships
            out == fill_first.out
            vectors == fill_first.prov.vectors
            missing == MissingIdx
            place == [i \in missing |-> Cardinality({j \in missing : j <= i})]
            id == [i \in missing |-> get_internship_id(cat[i])]
        IN  /\ Len(out.calls) <= 1
            /\ (out.calls = <<>>) <=> (missing = {})
            /\ out.calls # <<>> =>
                  /\ Len(out.calls[1]) = Cardinality(missing)
                  /\ \A i \in missing :
                        out.calls[1][place[i]] = get_internship_text(cat[i])
            /\ ~out.raised =>
                  /\ DOMAIN out.embeddings =
                        DOMAIN ExistingBefore \cup {id[i] : i \in missing}
                  /\ \A k \in DOMAIN ExistingBefore :
                        out.embeddings[k] = ExistingBefore[k]
                  /\ \A i \in missing :
                        (\A j \in missing : id[j] = id[i] => j <= i)
                        => out.embeddings[id[i]] = vectors[place[i]]
            /\ pc = "refilled" =>
                  /\ ~fill_second.raised
                  /\ fill_second.calls = <<>>
                  /\ fill_second.embeddings = out.embeddings

\* A catalog with a cached posting and two missing ones of different
\* identities was filled in one batch of two texts, the provider returned
\* two different vectors, each is stored under its posting's identity, and
\* the second fill called nothing.
C9_Witness ==
    /\ pc = "refilled"
    /\ Cardinality(MissingIdx) = 2
    /\ \E i \in 1..Len(fill_args.internships) :
          /\ IsDict(fill_args.internships[i])
          /\ get_internship_id(fill_args.internships[i]) \in DOMAIN ExistingBefore
    /\ Len(fill_first.out.calls) = 1 /\ Len(fill_first.out.calls[1]) = 2
    /\ fill_first.prov.vectors[1] # fill_first.prov.vectors[2]
    /\ \A i \in MissingIdx :
          fill_first.out.embeddings[get_internship_id(fill_args.internships[i])]
              = fill_first.prov.vectors[PlaceOf(i)]
    /\ fill_second.calls = <<>>

\* Two missing postings of one identity were both requested and the vector
\* of the later one is the one kept.
C9_WitnessSharedIdentity ==
    /\ pc = "filled"
    /\ ~fill_first.out.raised
    /\ \E i, j \in MissingIdx :
          /\ i < j
          /\ get_internship_id(fill_args.internships[i])
                = get_internship_id(fill_args.internships[j])
          /\ fill_first.prov.vectors[PlaceOf(i)] # fill_first.prov.vectors[PlaceOf(j)]
          /\ fill_first.out.embeddings[get_internship_id(fill_args.internships[j])]
                = fill_first.prov.vectors[PlaceOf(j)]

(***************************************************************************)
(* The files and check_and_update_embeddings                               *)
(***************************************************************************)

\* A file: absent, bytes that are not JSON, or a JSON document.
Missing == [kind |-> "missing"]
Invalid == [kind |-> "invalid"]
JsonFile(content) == [kind |-> "json", content |-> content]

\* A value that may be None: None, or Some(v).
Some(v) == [some |-> v]

\* md5 of the bytes, taken as injective; None when the file cannot be read.
get_file_hash(path) == IF path.kind = "missing" THEN None ELSE [md5 |-> path]

\* json.load, or [] on FileNotFoundError or JSONDecodeError.
load_internships(path) == IF path.kind = "json" THEN path.content ELSE <<>>

\* data.get("embeddings", {}), or {} on FileNotFoundError or JSONDecodeError.
load_embeddings(path) ==
    IF path.kind = "json" THEN Get(path.content, "embeddings", EmptyDict)
    ELSE EmptyDict

\* data.get("metadata", {}) of the embeddings file, {} when the file does
\* not exist or does not parse.
LoadMetadata(path) ==
    IF path.kind = "json" THEN Get(path.content, "metadata", EmptyDict)
    ELSE EmptyDict

\* The document check_and_update_embeddings writes (created_at, the model
\* name and the path are left out: nothing reads them).
RefreshedFile(updated_embeddings, current_hash) ==
    JsonFile([metadata |-> [total_embeddings |-> Cardinality(DOMAIN updated_embeddings),
                            source_file_hash |-> current_hash],
              embeddings |-> updated_embeddings])

\* The document save_embeddings writes: its metadata has no source_file_hash.
SavedFile(embeddings_dict) ==
    JsonFile([metadata |-> [total_embeddings |-> Cardinality(DOMAIN embeddings_dict)],
              embeddings |-> embeddings_dict])

\* open(path, "w") followed by json.dump: the write succeeds, or fails
\* before the file is touched, or fails after open() truncated it.
WriteOutcomes == {"ok", "refused", "torn"}
Written(path, document, write) ==
    CASE write = "ok" -> document
      [] write = "refused" -> path
      [] OTHER -> Invalid

\* What a call did: whether it raised, the triple it returned, the
\* embeddings file after it, and whether it loaded the catalog, which
\* batches it sent to the provider and whether it tried to write the file.
CheckOutcome(raised, internship_list, embeddings_dict, updated, file, reloaded, calls, wrote) ==
    [raised |-> raised, internships |-> internship_list,
     embeddings |-> embeddings_dict, updated |-> updated,
     embeddings_file |-> file, reloaded |-> reloaded, calls |-> calls,
     wrote |-> wrote]

\* current_hash == last_processed_hash and cached_internships is not None
\* and cached_embeddings is not None
CacheIsCurrent(current_hash, last_processed_hash, cached_internships0, cached_embeddings0) ==
    /\ current_hash = last_processed_hash
    /\ cached_internships0 # None
    /\ cached_embeddings0 # None

check_and_update_embeddings(internships_path, embeddings_path, cached_internships0, cached_embeddings0, prov, write) ==
    LET current_hash == get_file_hash(internships_path)
        embeddings_metadata == LoadMetadata(embeddings_path)
        last_processed_hash == Get(embeddings_metadata, "source_file_hash", None)
    IN  IF CacheIsCurrent(current_hash, last_processed_hash,
                          cached_internships0, cached_embeddings0)
        THEN CheckOutcome(FALSE, cached_internships0, cached_embeddings0, FALSE,
                          embeddings_path, FALSE, <<>>, FALSE)
        ELSE LET internship_list == load_internships(internships_path)
             IN  IF internship_list = <<>>
                 THEN CheckOutcome(FALSE, Some(<<>>), Some(EmptyDict), FALSE,
                                   embeddings_path, TRUE, <<>>, FALSE)
                 ELSE LET existing_embeddings == load_embeddings(embeddings_path)
                          fill == precompute_doc_embeddings_new(
                                      internship_list, existing_embeddings, prov)
                      IN  IF fill.raised
                          THEN CheckOutcome(TRUE, None, None, FALSE,
                                            embeddings_path, TRUE, fill.calls,
                                            FALSE)
                          ELSE CheckOutcome(FALSE, Some(internship_list),
                                   Some(fill.embeddings), TRUE,
                                   Written(embeddings_path,
                                           RefreshedFile(fill.embeddings,
                                                         current_hash),
                                           write),
                                   TRUE, fill.calls, TRUE)

\* app.py get_current_data: the globals after the call.
get_current_data(check, cached_internships0, cached_embeddings0) ==
    IF ~check.raised /\ (check.updated \/ cached_internships0 = None)
    THEN [cached_internships |-> check.internships,
          cached_embeddings |-> check.embeddings]
    ELSE [cached_internships |-> cached_internships0,
          cached_embeddings |-> cached_embeddings0]

(***************************************************************************)
(* The service: requests, forced recomputes, restarts of the process, and   *)
(* rewrites of the catalog file.                                            *)
(***************************************************************************)

\* The catalog file as the service may find it: absent, not JSON, an empty
\* list, one posting, that posting followed by a second one, and a posting
\* with a string id and skills followed by the first one.
PostingWithId == [id |-> IntId(7), title |-> <<"a", "b">>, org |-> <<"c">>]
PostingWithoutId == [title |-> <<"A", " ", "b">>, org |-> <<"C">>]
PostingWithStrId ==
    [id |-> StrId(<<"k">>), title |-> <<"t">>, org |-> <<"o">>,
     skills |-> <<"a", "b", "c">>]
CatalogFiles ==
    {Missing, Invalid, JsonFile(<<>>), JsonFile(<<PostingWithId>>),
     JsonFile(<<PostingWithId, PostingWithoutId>>),
     JsonFile(<<PostingWithStrId, PostingWithId>>)}

\* The profiles of the requests: one whose skill matches a posting, one
\* whose skill matches none.
ServiceProfiles ==
    {Profile(<<>>, <<"a", "b", "c">>, <<>>), Profile(<<>>, <<"z", "z">>, <<>>)}
ServiceTopK == 5

\* The answers of the provider to a batch of n texts: an exception, or the
\* same vector for every text; with no text there is no call and no answer
\* to choose.
ServiceResponses(n) ==
    IF n = 0 THEN {Vectors(<<>>)}
    ELSE {Raises, Vectors([i \in 1..n |-> VecSim80])}

\* The outcomes of the write of the call, if the call comes to write.
WritesOf(internships_path, embeddings_path, cached_internships0, cached_embeddings0, prov) ==
    IF check_and_update_embeddings(internships_path, embeddings_path,
           cached_internships0, cached_embeddings0, prov, "ok").wrote
    THEN WriteOutcomes ELSE {"ok"}

InitCache ==
    /\ pc = "serving"
    /\ internships_file \in CatalogFiles
    /\ embeddings_file = Missing
    /\ cached_internships = None /\ cached_embeddings = None
    /\ last_call = Idle
    /\ fill_args = Idle /\ fill_first = Idle /\ fill_second = Idle
    /\ threads = Idle /\ edits = Idle
    /\ user_skills = Idle /\ internship_skills = Idle /\ relevance = Idle
    /\ internships = Idle /\ request = Idle /\ provider = Idle
    /\ results = Idle /\ trace = Idle

\* What the operation found when it started.
Before ==
    [internships_file |-> internships_file, embeddings_file |-> embeddings_file,
     cached_internships |-> cached_internships,
     cached_embeddings |-> cached_embeddings]

\* A request that calls get_current_data (api_recommend and the other
\* endpoints), with the provider's answer and the outcome of the write.
GetCurrentData ==
    /\ pc = "serving"
    /\ \E prov \in ServiceResponses(Len(DocsToCompute(load_internships(internships_file),
                                  load_embeddings(embeddings_file)))) :
       \E write \in WritesOf(internships_file, embeddings_file,
                             cached_internships, cached_embeddings, prov) :
          LET check == check_and_update_embeddings(internships_file,
                           embeddings_file, cached_internships,
                           cached_embeddings, prov, write)
              now == get_current_data(check, cached_internships, cached_embeddings)
          IN  /\ embeddings_file' = check.embeddings_file
              /\ cached_internships' = now.cached_internships
              /\ cached_embeddings' = now.cached_embeddings
              /\ last_call' = [op |-> "get_current_data", before |-> Before,
                               prov |-> prov, check |-> check]
    /\ UNCHANGED <<pc, internships_file, skillVars, rankVars, concVars, fill_args,
                   fill_first, fill_second>>

\* POST /api/embeddings/recompute: get_current_data, then a fill of the
\* cached catalog from an empty dict, saved with save_embeddings.
ApiRecomputeEmbeddings ==
    /\ pc = "serving"
    /\ \E prov \in ServiceResponses(Len(DocsToCompute(load_internships(internships_file),
                                  load_embeddings(embeddings_file)))) :
       \E write \in WritesOf(internships_file, embeddings_file,
                             cached_internships, cached_embeddings, prov) :
          LET check == check_and_update_embeddings(internships_file,
                           embeddings_file, cached_internships,
                           cached_embeddings, prov, write)
              now == get_current_data(check, cached_internships, cached_embeddings)
          IN  IF check.raised \/ now.cached_internships.some = <<>>
              THEN /\ embeddings_file' = check.embeddings_file
                   /\ cached_internships' = now.cached_internships
                   /\ cached_embeddings' = now.cached_embeddings
                   /\ last_call' = [op |-> "recompute", before |-> Before,
                                    prov |-> prov, check |-> check,
                                    status |-> 500]
              ELSE \E forced \in ServiceResponses(Len(DocsToCompute(
                                     now.cached_internships.some, EmptyDict))),
                      saved \in WriteOutcomes :
                      LET fill == precompute_doc_embeddings_new(
                                      now.cached_internships.some, EmptyDict,
                                      forced)
                      IN  /\ cached_internships' = now.cached_internships
                          /\ cached_embeddings' =
                                IF fill.raised THEN now.cached_embeddings
                                ELSE Some(fill.embeddings)
                          /\ embeddings_file' =
                                IF fill.raised THEN check.embeddings_file
                                ELSE Written(check.embeddings_file,
                                             SavedFile(fill.embeddings), saved)
                          /\ last_call' = [op |-> "recompute", before |-> Before,
                                           prov |-> prov, check |-> check,
                                           forced |-> forced,
                                           status |-> IF fill.raised THEN 500
                                                      ELSE 200]
    /\ UNCHANGED <<pc, internships_file, skillVars, rankVars, concVars, fill_args,
                   fill_first, fill_second>>

\* The catalog file is rewritten, removed or damaged from outside.
EditCatalog ==
    /\ pc = "serving"
    /\ \E file \in CatalogFiles \ {internships_file} : internships_file' = file
    /\ last_call' = Idle
    /\ UNCHANGED <<pc, embeddings_file, cached_internships, cached_embeddings,
                   skillVars, rankVars, concVars, fill_args, fill_first,
                   fill_second>>

\* The process is started again: the module-level globals of app.py are
\* None, the files are as they were left.
Restart ==
    /\ pc = "serving"
    /\ cached_internships # None
    /\ cached_internships' = None /\ cached_embeddings' = None /\ last_call' = Idle
    /\ UNCHANGED <<pc, internships_file, embeddings_file, skillVars,
                   rankVars, concVars, fill_args, fill_first, fill_second>>

\* internship.get('id') or internship.get('title', '') + internship.get('org', '')
LookupKey(internship) ==
    IF Truthy(Get(internship, "id", None)) THEN internship.id
    ELSE StrId(Get(internship, "title", <<>>) \o Get(internship, "org", <<>>))

\* internship_id in embeddings: the keys of the dict are strings, and an
\* integer is equal to no string.
KeyIn(key, embeddings_dict) ==
    "str" \in DOMAIN key /\ key.str \in DOMAIN embeddings_dict

\* internship.copy() with the field embedding set.
WithEmbedding(internship, vector) ==
    [k \in DOMAIN internship \cup {"embedding"} |->
        IF k = "embedding" THEN vector ELSE internship[k]]

\* The loop of api_recommend that builds internships_with_embeddings.
RECURSIVE MergeEmbeddings(_, _)
MergeEmbeddings(internship_list, embeddings_dict) ==
    IF internship_list = <<>> THEN <<>>
    ELSE LET internship == Head(internship_list)
             rest == MergeEmbeddings(Tail(internship_list), embeddings_dict)
         IN  IF KeyIn(LookupKey(internship), embeddings_dict)
             THEN <<WithEmbedding(internship,
                                  embeddings_dict[LookupKey(internship).str])>>
                  \o rest
             ELSE rest

\* The response of api_recommend: the status, what was passed to recommend
\* and what it returned.  An HTTPException raised inside the try block is
\* caught by its except clause and raised again with status 500.
Response(status, detail, passed, recommendations) ==
    [status |-> status, detail |-> detail, passed |-> passed,
     recommendations |-> recommendations]

\* api_recommend after get_current_data returned or raised.
api_recommend(raised, internship_list, embeddings_dict, req, q_prov) ==
    IF raised THEN {Response(500, "provider", <<>>, <<>>)}
    ELSE IF internship_list = <<>>
    THEN {Response(500, "404: No internships data available", <<>>, <<>>)}
    ELSE IF embeddings_dict = EmptyDict
    THEN {Response(500, "500: Embeddings not available", <<>>, <<>>)}
    ELSE IF \E i \in 1..Len(internship_list) : ~IsDict(internship_list[i])
    THEN {Response(500, "AttributeError", <<>>, <<>>)}
    ELSE LET internships_with_embeddings ==
                 MergeEmbeddings(internship_list, embeddings_dict)
         IN  {Response(200, "", internships_with_embeddings, out.results) :
                 out \in recommend(internships_with_embeddings, req.education,
                                   req.skills, req.location, req.top_k, q_prov)}

\* POST /api/recommend
ApiRecommend ==
    /\ pc = "serving"
    /\ \E prov \in ServiceResponses(Len(DocsToCompute(load_internships(internships_file),
                                  load_embeddings(embeddings_file)))) :
       \E write \in WritesOf(internships_file, embeddings_file,
                             cached_internships, cached_embeddings, prov),
          profile \in ServiceProfiles,
          q_prov \in {Failure, Answer(QueryA)} :
          LET check == check_and_update_embeddings(internships_file,
                           embeddings_file, cached_internships,
                           cached_embeddings, prov, write)
              now == get_current_data(check, cached_internships, cached_embeddings)
          IN  /\ embeddings_file' = check.embeddings_file
              /\ cached_internships' = now.cached_internships
              /\ cached_embeddings' = now.cached_embeddings
              /\ \E response \in api_recommend(check.raised,
                        IF check.raised THEN <<>> ELSE now.cached_internships.some,
                        IF check.raised THEN EmptyDict ELSE now.cached_embeddings.some,
                        WithTopK(profile, ServiceTopK), q_prov) :
                    last_call' = [op |-> "api_recommend", before |-> Before,
                                  prov |-> prov, check |-> check,
                                  request |-> profile,
                                  q_prov |-> q_prov, response |-> response]
    /\ UNCHANGED <<pc, internships_file, skillVars, rankVars, concVars, fill_args,
                   fill_first, fill_second>>

NextCache ==
    GetCurrentData \/ ApiRecommend \/ ApiRecomputeEmbeddings \/ EditCatalog
    \/ Restart
SpecCache == InitCache /\ [][NextCache]_vars

\* The last request's call of check_and_update_embeddings: what it was
\* given and what it did.
Checked == pc = "serving" /\ last_call # Idle
HashesEqual ==
    get_file_hash(last_call.before.internships_file)
        = Get(LoadMetadata(last_call.before.embeddings_file), "source_file_hash", None)
BothNonEmpty ==
    /\ last_call.before.cached_internships \notin {None, Some(<<>>)}
    /\ last_call.before.cached_embeddings \notin {None, Some(EmptyDict)}
CatalogReadableNonEmpty ==
    /\ last_call.before.internships_file.kind = "json"
    /\ last_call.before.internships_file.content # <<>>
ReturnedCachedUnchanged ==
    /\ ~last_call.check.raised
    /\ last_call.check.internships = last_call.before.cached_internships
    /\ last_call.check.embeddings = last_call.before.cached_embeddings
    /\ ~last_call.check.updated
    /\ ~last_call.check.reloaded
    /\ last_call.check.calls = <<>>
    /\ ~last_call.check.wrote
    /\ last_call.check.embeddings_file = last_call.before.embeddings_file

\* C10: check_and_update_embeddings returns the cached postings and vectors
\* it was given, unchanged and with updated false, without loading the
\* catalog, calling the provider or writing the cache file, exactly when
\* the catalog's hash equals the recorded one and both cached values are
\* non-empty; otherwise, if the catalog is readable and non-empty, it
\* loads the catalog and the vectors on disk, fills, writes the vectors
\* with the new hash and returns updated true.  (A provider failure raises
\* instead, and a failed write leaves the file or damages it: both are
\* allowed here.)
C10_CheckAndRefreshContract ==
    Checked =>
        LET before == last_call.before
            check == last_call.check
            catalog == before.internships_file.content
            on_disk == load_embeddings(before.embeddings_file)
        IN  /\ ReturnedCachedUnchanged <=> (HashesEqual /\ BothNonEmpty)
            /\ (~(HashesEqual /\ BothNonEmpty) /\ CatalogReadableNonEmpty
                  /\ ~check.raised) =>
                  /\ check.reloaded /\ check.updated /\ check.wrote
                  /\ check.internships = Some(catalog)
                  /\ \A k \in DOMAIN on_disk :
                        /\ k \in DOMAIN check.embeddings.some
                        /\ check.embeddings.some[k] = on_disk[k]
                  /\ \A i \in 1..Len(catalog) :
                        get_internship_id(catalog[i]) \in DOMAIN check.embeddings.some
                  /\ check.embeddings_file \in
                        {RefreshedFile(check.embeddings.some,
                                       get_file_hash(before.internships_file)),
                         before.embeddings_file, Invalid}

\* The catalog is readable and holds postings, its hash is the recorded
\* one, the process holds an empty list and an empty dict (from a first
\* request made while the catalog was absent), and the call returned the
\* empty list and dict without loading the catalog.
C10_Witness ==
    /\ Checked
    /\ CatalogReadableNonEmpty
    /\ HashesEqual
    /\ last_call.before.cached_internships = Some(<<>>)
    /\ last_call.before.cached_embeddings = Some(EmptyDict)
    /\ ReturnedCachedUnchanged
    /\ cached_internships = Some(<<>>)

\* With hashes equal and a non-empty cache the call returned the cache
\* without any reload; with a changed catalog it reloaded, filled and wrote.
C10_WitnessCurrent ==
    /\ Checked /\ HashesEqual /\ BothNonEmpty /\ ReturnedCachedUnchanged
    /\ CatalogReadableNonEmpty
C10_WitnessRefreshed ==
    /\ Checked /\ ~HashesEqual /\ BothNonEmpty /\ CatalogReadableNonEmpty
    /\ last_call.check.updated
    /\ last_call.check.calls # <<>>
    /\ embeddings_file = RefreshedFile(last_call.check.embeddings.some,
                                       get_file_hash(internships_file))

\* The catalog file was empty or unreadable when the last request started.
CatalogUnavailable ==
    \/ last_call.before.internships_file.kind # "json"
    \/ last_call.before.internships_file.content = <<>>

\* C11: whenever the catalog file is empty or unreadable at a request,
\* check_and_update_embeddings returns an empty list and an empty dict with
\* updated false, get_current_data leaves the process with that empty data,
\* and a recommendation request answers normally with no recommendation,
\* whatever the process had loaded before.
C11_UnavailableCatalogEmptyResults ==
    (Checked /\ CatalogUnavailable) =>
        /\ ~last_call.check.raised
        /\ last_call.check.internships = Some(<<>>)
        /\ last_call.check.embeddings = Some(EmptyDict)
        /\ ~last_call.check.updated
        /\ last_call.op \in {"get_current_data", "api_recommend"} =>
              /\ cached_internships = Some(<<>>)
              /\ cached_embeddings = Some(EmptyDict)
        /\ last_call.op = "api_recommend" =>
              /\ last_call.response.status = 200
              /\ last_call.response.passed = <<>>
              /\ last_call.response.recommendations = <<>>

\* The catalog file is absent, the call returned the empty list and dict,
\* and the request still ranked the postings loaded earlier and answered
\* with a recommendation.
C11_Witness ==
    /\ Checked /\ last_call.op = "api_recommend"
    /\ internships_file = Missing
    /\ last_call.before.internships_file = Missing
    /\ last_call.check.internships = Some(<<>>)
    /\ ~last_call.check.updated
    /\ cached_internships \notin {None, Some(<<>>)}
    /\ last_call.response.status = 200
    /\ last_call.response.recommendations # <<>>

\* The catalog file is absent from the start: the request is answered with
\* an error, not with an empty list of recommendations.
C11_WitnessError ==
    /\ Checked /\ last_call.op = "api_recommend"
    /\ last_call.before.internships_file = Missing
    /\ last_call.before.cached_internships = None
    /\ cached_internships = Some(<<>>)
    /\ last_call.response.status = 500

\* C12: when embed_query fails during recommend or its fallback, the call
\* ends with an exception that reaches its caller, who can so tell the
\* failure from a call that found nothing.
C12_ProviderFailureSurfaced ==
    (Called /\ ~provider.ok /\ trace.queries # <<>>) => trace.raised

\* The provider failed on the one query of a call whose catalog has a
\* posting that passes the gate, and the call returned the empty list, as
\* a call that finds nothing does.
C12_Witness ==
    /\ Called /\ ~provider.ok
    /\ Len(trace.queries) = 1
    /\ AdmittedIdx # {}
    /\ ~trace.raised
    /\ results = <<>>

\* The same in the fallback.
C12_WitnessFallback ==
    /\ Called /\ ~provider.ok
    /\ trace.fallback
    /\ Len(trace.queries) = 1
    /\ ~trace.raised
    /\ results = <<>>

\* The last request was a recommendation request that reached recommend.
Ranked ==
    /\ Checked /\ last_call.op = "api_recommend"
    /\ last_call.response.status = 200

\* Positions of the cached postings whose identity has a vector in the
\* cached dict.
CachedVectorIdx ==
    {i \in 1..Len(cached_internships.some) :
        get_internship_id(cached_internships.some[i])
            \in DOMAIN cached_embeddings.some}

\* The posting, with the vector stored under its identity, is in the list
\* passed to recommend.
PassedWithVector(posting) ==
    \E n \in 1..Len(last_call.response.passed) :
        last_call.response.passed[n]
            = WithEmbedding(posting,
                            cached_embeddings.some[get_internship_id(posting)])

\* C13: the key a recommendation request looks a posting's vector up with
\* is the identity the fill stored it under: every posting of the catalog
\* in memory whose identity has a cached vector is passed to recommend with
\* that vector attached.
C13_SameIdentityEverywhere ==
    Ranked =>
        \A i \in CachedVectorIdx : PassedWithVector(cached_internships.some[i])

\* A posting with an integer id and one without id have their vectors in
\* the cached dict, and the request passed neither of them to recommend.
C13_Witness ==
    /\ Ranked
    /\ cached_internships = Some(<<PostingWithId, PostingWithoutId>>)
    /\ CachedVectorIdx = {1, 2}
    /\ last_call.response.passed = <<>>

\* A posting with a string id is passed with its vector; the one with an
\* integer id next to it is not.
C13_WitnessStringId ==
    /\ Ranked
    /\ cached_internships = Some(<<PostingWithStrId, PostingWithId>>)
    /\ CachedVectorIdx = {1, 2}
    /\ PassedWithVector(PostingWithStrId)
    /\ Len(last_call.response.passed) = 1

(***************************************************************************)
(* Concurrent requests.  The endpoints are plain functions, which the      *)
(* server runs on a pool of threads: calls of get_current_data interleave   *)
(* at each read and write of a file or of a global.  The provider answers   *)
(* and the writes succeed here; the catalog file is rewritten from outside  *)
(* between any two steps.                                                   *)
(***************************************************************************)

Threads == {1, 2}
MaxEdits == 2

\* The catalogs the file is rewritten with.
RaceCatalogs ==
    {JsonFile(<<PostingWithStrId>>), JsonFile(<<PostingWithId>>)}

\* The locals of a call of get_current_data.
Local(at, cached_internships0, cached_embeddings0, current_hash, internship_list, embeddings_dict, updated) ==
    [pc |-> at, cached_internships |-> cached_internships0,
     cached_embeddings |-> cached_embeddings0, current_hash |-> current_hash,
     internships |-> internship_list, embeddings |-> embeddings_dict,
     updated |-> updated]

\* The process has served nothing yet, or it has loaded the catalog and
\* written its vectors.
InitRace ==
    /\ pc = "concurrent"
    /\ internships_file \in RaceCatalogs
    /\ \/ /\ embeddings_file = Missing
          /\ cached_internships = None /\ cached_embeddings = None
       \/ LET loaded == precompute_doc_embeddings_new(internships_file.content,
                            EmptyDict, Vectors(<<VecSim80>>)).embeddings
          IN  /\ embeddings_file = RefreshedFile(loaded, get_file_hash(internships_file))
              /\ cached_internships = Some(internships_file.content)
              /\ cached_embeddings = Some(loaded)
    /\ threads = [t \in Threads |-> Local("idle", Idle, Idle, Idle, Idle, Idle, FALSE)]
    /\ edits = 0
    /\ last_call = Idle
    /\ fill_args = Idle /\ fill_first = Idle /\ fill_second = Idle
    /\ user_skills = Idle /\ internship_skills = Idle /\ relevance = Idle
    /\ internships = Idle /\ request = Idle /\ provider = Idle
    /\ results = Idle /\ trace = Idle

\* The thread moves on with new locals; files and globals stay.
Step(t, local) == threads' = [threads EXCEPT ![t] = local]

\* get_current_data passes the globals to check_and_update_embeddings.
Call(t) ==
    /\ threads[t].pc = "idle"
    /\ Step(t, Local("hash", cached_internships, cached_embeddings, Idle, Idle,
                     Idle, FALSE))
    /\ UNCHANGED <<pc, skillVars, rankVars, cacheVars, edits>>

\* current_hash = get_file_hash(internships_path)
ReadHash(t) ==
    /\ threads[t].pc = "hash"
    /\ Step(t, [threads[t] EXCEPT !.pc = "check",
                                  !.current_hash = get_file_hash(internships_file)])
    /\ UNCHANGED <<pc, skillVars, rankVars, cacheVars, edits>>

\* The metadata is read and the early return taken or not.
CheckCurrent(t) ==
    /\ threads[t].pc = "check"
    /\ IF CacheIsCurrent(threads[t].current_hash,
                         Get(LoadMetadata(embeddings_file), "source_file_hash", None),
                         threads[t].cached_internships, threads[t].cached_embeddings)
       THEN Step(t, [threads[t] EXCEPT !.pc = "assign",
                                       !.internships = threads[t].cached_internships,
                                       !.embeddings = threads[t].cached_embeddings])
       ELSE Step(t, [threads[t] EXCEPT !.pc = "load"])
    /\ UNCHANGED <<pc, skillVars, rankVars, cacheVars, edits>>

\* internships = load_internships(internships_path), and the return of
\* empty data when there is none.
LoadCatalog(t) ==
    /\ threads[t].pc = "load"
    /\ IF load_internships(internships_file) = <<>>
       THEN Step(t, [threads[t] EXCEPT !.pc = "assign",
                                       !.internships = Some(<<>>),
                                       !.embeddings = Some(EmptyDict)])
       ELSE Step(t, [threads[t] EXCEPT !.pc = "fill",
                        !.internships = Some(load_internships(internships_file))])
    /\ UNCHANGED <<pc, skillVars, rankVars, cacheVars, edits>>

\* existing_embeddings = load_embeddings(embeddings_path) and the fill.
LoadAndFill(t) ==
    /\ threads[t].pc = "fill"
    /\ LET existing_embeddings == load_embeddings(embeddings_file)
           todo == DocsToCompute(threads[t].internships.some, existing_embeddings)
           fill == precompute_doc_embeddings_new(threads[t].internships.some,
                       existing_embeddings,
                       Vectors([i \in 1..Len(todo) |-> VecSim80]))
       IN  Step(t, [threads[t] EXCEPT !.pc = "write",
                                      !.embeddings = Some(fill.embeddings)])
    /\ UNCHANGED <<pc, skillVars, rankVars, cacheVars, edits>>

\* The cache file is written with the hash read at the start.
WriteFile(t) ==
    /\ threads[t].pc = "write"
    /\ embeddings_file' = RefreshedFile(threads[t].embeddings.some,
                                        threads[t].current_hash)
    /\ Step(t, [threads[t] EXCEPT !.pc = "assign", !.updated = TRUE])
    /\ UNCHANGED <<pc, skillVars, rankVars, internships_file, cached_internships,
                   cached_embeddings, last_call, fill_args, fill_first,
                   fill_second, edits>>

\* if updated or cached_internships is None: cached_internships = internships
AssignInternships(t) ==
    /\ threads[t].pc = "assign"
    /\ IF threads[t].updated \/ cached_internships = None
       THEN /\ cached_internships' = threads[t].internships
            /\ Step(t, [threads[t] EXCEPT !.pc = "assign_embeddings"])
       ELSE /\ UNCHANGED cached_internships
            /\ Step(t, [threads[t] EXCEPT !.pc = "done"])
    /\ UNCHANGED <<pc, skillVars, rankVars, internships_file, embeddings_file,
                   cached_embeddings, last_call, fill_args, fill_first,
                   fill_second, edits>>

\* cached_embeddings = embeddings
AssignEmbeddings(t) ==
    /\ threads[t].pc = "assign_embeddings"
    /\ cached_embeddings' = threads[t].embeddings
    /\ Step(t, [threads[t] EXCEPT !.pc = "done"])
    /\ UNCHANGED <<pc, skillVars, rankVars, internships_file, embeddings_file,
                   cached_internships, last_call, fill_args, fill_first,
                   fill_second, edits>>

\* The catalog file is rewritten while requests are running.
RewriteCatalog ==
    /\ pc = "concurrent"
    /\ edits < MaxEdits
    /\ \E file \in RaceCatalogs \ {internships_file} : internships_file' = file
    /\ edits' = edits + 1
    /\ UNCHANGED <<pc, skillVars, rankVars, embeddings_file, cached_internships,
                   cached_embeddings, last_call, fill_args, fill_first,
                   fill_second, threads>>

NextRace ==
    \/ \E t \in Threads :
          \/ Call(t) \/ ReadHash(t) \/ CheckCurrent(t) \/ LoadCatalog(t)
          \/ LoadAndFill(t) \/ WriteFile(t) \/ AssignInternships(t)
          \/ AssignEmbeddings(t)
    \/ RewriteCatalog
SpecRace == InitRace /\ [][NextRace]_vars

\* Every request has returned; the threads that reloaded, filled and wrote.
AllDone == pc = "concurrent" /\ \A t \in Threads : threads[t].pc = "done"
Refreshers == {t \in Threads : threads[t].updated}

\* C14: once the concurrent requests have finished, if any of them
\* refreshed, the globals and the cache file are those of one and the same
\* refresh (so the postings and the vectors in memory belong together), and
\* the hash recorded in the file is that of the current catalog only if the
\* catalog in memory is the current one.
C14_ConcurrentRefreshesTolerated ==
    AllDone =>
        /\ Refreshers # {} =>
              \E t \in Refreshers :
                  /\ cached_internships = threads[t].internships
                  /\ cached_embeddings = threads[t].embeddings
                  /\ embeddings_file = RefreshedFile(threads[t].embeddings.some,
                                                     threads[t].current_hash)
        /\ Get(LoadMetadata(embeddings_file), "source_file_hash", None)
               = get_file_hash(internships_file)
           => cached_internships = Some(internships_file.content)

\* Both requests refreshed, one of the old catalog and one of the new; the
\* file is of the new catalog and records its hash, the postings in memory
\* are of the old one: every later request finds the hashes equal and
\* returns the old postings.
C14_Witness ==
    /\ AllDone
    /\ Refreshers = Threads
    /\ Get(LoadMetadata(embeddings_file), "source_file_hash", None)
           = get_file_hash(internships_file)
    /\ cached_internships # Some(internships_file.content)
    /\ cached_internships # None /\ cached_embeddings # None

\* The postings in memory are of one refresh and the vectors of the other.
C14_WitnessMixedPair ==
    /\ AllDone
    /\ Refreshers = Threads
    /\ \E t, u \in Threads :
          /\ t # u
          /\ threads[t].internships # threads[u].internships
          /\ threads[t].embeddings # threads[u].embeddings
          /\ cached_internships = threads[t].internships
          /\ cached_embeddings = threads[u].embeddings

\* The catalog at the request is readable and there is a vector for none
\* of its postings: none on disk, and the provider did not deliver any.
NoVectorsAvailable ==
    /\ Checked /\ last_call.op = "api_recommend"
    /\ CatalogReadableNonEmpty
    /\ LET catalog == last_call.before.internships_file.content
       IN  /\ \A i \in 1..Len(catalog) :
                 get_internship_id(catalog[i])
                     \notin DOMAIN load_embeddings(last_call.before.embeddings_file)
           /\ last_call.before.cached_embeddings \in {None, Some(EmptyDict)}
    /\ last_call.check.raised

\* Positions of the catalog at the request that the gate admits for the
\* request's skills.
GateAdmitsAtRequest ==
    LET catalog == last_call.before.internships_file.content
    IN  {i \in 1..Len(catalog) :
            LET r == calculate_skill_relevance(last_call.request.skills,
                                               Get(catalog[i], "skills", <<>>))
            IN  GateAdmits(r.exact, r.partial, r.score)}

\* C15: a recommendation request for which no vector is available for any
\* posting is still answered: the postings the gate admits are returned,
\* each with semantic similarity 0 and a score made of the boosts alone.
C15_NoVectorsRankedByBoosts ==
    (NoVectorsAvailable /\ GateAdmitsAtRequest # {} /\ last_call.q_prov.ok) =>
        /\ last_call.response.status = 200
        /\ last_call.response.recommendations # <<>>
        /\ \A n \in 1..Len(last_call.response.recommendations) :
              LET item == last_call.response.recommendations[n]
              IN  /\ item.match_details.semantic_similarity = 0
                  /\ item.score = 30 * item.match_details.exact_skill_matches
                                  + 15 * Min(item.match_details.partial_skill_matches, 3)

\* A fresh process with no cache file, a catalog with a posting whose
\* skills are the user's, and a provider that fails for the documents: the
\* request is answered with an error and no recommendation.
C15_Witness ==
    /\ NoVectorsAvailable
    /\ GateAdmitsAtRequest # {}
    /\ last_call.q_prov.ok
    /\ last_call.before.embeddings_file = Missing
    /\ last_call.response.status = 500
    /\ last_call.response.recommendations = <<>>

\* The call of check_and_update_embeddings came to the fill, the fill had
\* postings to send and the provider failed.
FillFailedInCheck ==
    /\ Checked
    /\ ~CacheIsCurrent(get_file_hash(last_call.before.internships_file),
                       Get(LoadMetadata(last_call.before.embeddings_file),
                           "source_file_hash", None),
                       last_call.before.cached_internships,
                       last_call.before.cached_embeddings)
    /\ DocsToCompute(load_internships(last_call.before.internships_file),
                     load_embeddings(last_call.before.embeddings_file)) # <<>>
    /\ ~last_call.prov.ok

\* C16: when the provider fails during the fill, the fill raises and the
\* dict it was given holds what it held before; inside
\* check_and_update_embeddings the exception goes on to the caller: nothing
\* is written to the cache file, nothing is returned, the globals of the
\* process stay as they were and the request ends with an error.
C16_FillFailureAbortsRefresh ==
    FillFailedInCheck =>
        LET existing_embeddings == load_embeddings(last_call.before.embeddings_file)
            fill == precompute_doc_embeddings_new(
                        load_internships(last_call.before.internships_file),
                        existing_embeddings, last_call.prov)
        IN  /\ fill.raised
            /\ fill.embeddings = existing_embeddings
            /\ last_call.check.raised
            /\ last_call.check.calls = fill.calls
            /\ ~last_call.check.wrote
            /\ ~last_call.check.updated
            /\ last_call.check.internships = None
            /\ last_call.check.embeddings = None
            /\ last_call.check.embeddings_file = last_call.before.embeddings_file
            /\ embeddings_file = last_call.before.embeddings_file
            /\ cached_internships = last_call.before.cached_internships
            /\ cached_embeddings = last_call.before.cached_embeddings
            /\ last_call.op = "api_recommend" => last_call.response.status = 500
            /\ last_call.op = "recompute" => last_call.status = 500

\* The catalog changed to one with a posting that has no vector in the
\* cache file; the provider failed for it: the file still holds the old
\* vectors only and the process the old catalog.
C16_Witness ==
    /\ FillFailedInCheck
    /\ last_call.check.raised
    /\ last_call.before.embeddings_file.kind = "json"
    /\ load_embeddings(last_call.before.embeddings_file) # EmptyDict
    /\ last_call.before.cached_internships \notin {None, Some(<<>>)}
    /\ embeddings_file = last_call.before.embeddings_file
    /\ cached_internships = last_call.before.cached_internships
    /\ cached_internships # Some(load_internships(internships_file))

\* The document check_and_update_embeddings writes after the fill of the
\* call, and the case that it tried to write it and the file is not that
\* document afterwards.
DocumentOfCheck ==
    RefreshedFile(last_call.check.embeddings.some,
                  get_file_hash(last_call.before.internships_file))
WriteFailedInCheck ==
    /\ Checked
    /\ last_call.check.wrote
    /\ last_call.check.embeddings_file # DocumentOfCheck

\* C17: when the write of the cache file fails after the fill, the call
\* returns the reloaded postings and the merged vectors with updated true,
\* get_current_data stores them in the globals, and the file on disk is as
\* it was before the call.
C17_WriteFailureKeepsDataAndFile ==
    WriteFailedInCheck =>
        /\ ~last_call.check.raised
        /\ last_call.check.updated
        /\ last_call.check.internships
              = Some(load_internships(last_call.before.internships_file))
        /\ last_call.check.embeddings
              = Some(precompute_doc_embeddings_new(
                         load_internships(last_call.before.internships_file),
                         load_embeddings(last_call.before.embeddings_file),
                         last_call.prov).embeddings)
        /\ last_call.op \in {"get_current_data", "api_recommend"} =>
              /\ cached_internships = last_call.check.internships
              /\ cached_embeddings = last_call.check.embeddings
        /\ last_call.check.embeddings_file = last_call.before.embeddings_file

\* The file held vectors and a recorded hash; the write failed after the
\* file was opened for writing: the data is returned and stored in the
\* globals, and the file is no longer readable.
C17_Witness ==
    /\ WriteFailedInCheck
    /\ last_call.op = "get_current_data"
    /\ last_call.before.embeddings_file.kind = "json"
    /\ load_embeddings(last_call.before.embeddings_file) # EmptyDict
    /\ last_call.check.updated
    /\ cached_embeddings = last_call.check.embeddings
    /\ embeddings_file = Invalid
    /\ load_embeddings(embeddings_file) = EmptyDict

\* The write was refused before the file was touched: the data is returned
\* and stored, and the file is as before.
C17_WitnessRefused ==
    /\ WriteFailedInCheck
    /\ last_call.op = "get_current_data"
    /\ last_call.check.updated
    /\ cached_internships = last_call.check.internships
    /\ cached_embeddings = last_call.check.embeddings
    /\ embeddings_file = last_call.before.embeddings_file
    /\ embeddings_file.kind = "json"

\* The last call was served without an exception of the check, the catalog
\* it saw is readable and non-empty, and what it wrote is on disk: the
\* document of the refresh if it refreshed, the document of save_embeddings
\* if it was a forced recompute that came to save.
WritesSucceeded ==
    /\ last_call.check.wrote => last_call.check.embeddings_file = DocumentOfCheck
    /\ (last_call.op = "recompute" /\ last_call.status = 200) =>
           embeddings_file = SavedFile(cached_embeddings.some)
ServedWithWritesDone ==
    /\ Checked
    /\ ~last_call.check.raised
    /\ CatalogReadableNonEmpty
    /\ WritesSucceeded

\* C18: after a request, refresh or forced recompute whose writes
\* succeeded, a further request made while the catalog file is unmodified
\* finds nothing to refresh: its check_and_update_embeddings returns
\* updated false, does not load the catalog, does not call the provider and
\* does not write the cache file.
C18_RefreshOnlyOnCatalogChange ==
    [][(ServedWithWritesDone /\ last_call' # Idle) =>
          /\ ~last_call'.check.raised
          /\ ~last_call'.check.updated
          /\ ~last_call'.check.reloaded
          /\ last_call'.check.calls = <<>>
          /\ ~last_call'.check.wrote]_vars

\* A request that found the process holding the current catalog and a
\* vector for each of its postings, saved by a forced recompute, and still
\* loaded the catalog again and wrote the cache file.
C18_Witness ==
    /\ Checked
    /\ last_call.before.cached_internships
          = Some(load_internships(last_call.before.internships_file))
    /\ last_call.before.cached_internships # Some(<<>>)
    /\ last_call.before.cached_embeddings # None
    /\ last_call.before.embeddings_file
          = SavedFile(last_call.before.cached_embeddings.some)
    /\ DocsToCompute(last_call.before.cached_internships.some,
                     last_call.before.cached_embeddings.some) = <<>>
    /\ last_call.check.reloaded
    /\ last_call.check.wrote
    /\ last_call.check.updated

\* The item is a copy of the posting without its embedding, with score and
\* match_details added.
IsCopyOf(item, posting) ==
    /\ IsDict(posting)
    /\ DOMAIN item = (DOMAIN posting \ {"embedding"}) \cup {"score", "match_details"}
    /\ \A k \in DOMAIN posting \ {"embedding", "score", "match_details"} :
          item[k] = posting[k]

C19_WitnessFallback ==
    /\ pc = "done"
    /\ trace.fallback
    /\ \E n \in 1..Len(results), i \in 1..Len(internships) :
          /\ IsCopyOf(results[n], internships[i])
          /\ "embedding" \in DOMAIN internships[i]
          /\ results[n].match_details.fallback_recommendation

====
